---- MODULE Spec2Model ----
(***************************************************************************)
(* HA-PI: touch panel for Home Assistant lights.                           *)
(*                                                                         *)
(* The model covers the light registry (light_ui.c), the Home Assistant    *)
(* client (ha_client.c), the configuration store (config.c), the web       *)
(* configuration server (config_server.c) and the main loop (main.c).      *)
(* Two threads run: the render loop of main() and the mongoose server      *)
(* thread started by config_server_start().                                *)
(*                                                                         *)
(* C strings are sequences of one-character strings; the configuration     *)
(* file is the text config_save() writes and config_load() parses.         *)
(***************************************************************************)
EXTENDS Integers, Sequences, FiniteSets, TLC

(***************************************************************************)
(* Program constants                                                       *)
(***************************************************************************)
LIGHT_MAX_COUNT == 16
LIGHT_PER_PAGE == 4
MAX_PAGES == 4
CONFIG_MAX_LIGHTS == 16
CONFIG_WEB_HASH_MAX == 128
BASE_URL_SIZE == 128
TOKEN_SIZE == 512
ENTITY_ID_SIZE == 64
LABEL_SIZE == 32
ICON_SIZE == 8
DOMAIN_SIZE == 64

LIGHT_STATE_UNKNOWN == "UNKNOWN"
LIGHT_STATE_OFF == "OFF"
LIGHT_STATE_ON == "ON"
light_state_t == {LIGHT_STATE_UNKNOWN, LIGHT_STATE_OFF, LIGHT_STATE_ON}

(***************************************************************************)
(* Bounds of the model                                                     *)
(***************************************************************************)
MaxPuts == 1
MaxTick == 1
\* successful logins, steps of the wall clock, tokens that requests present
MaxLogins == 9
MaxAdvances == 3
MaxTried == 2
\* logins while requests of every kind arrive, logins while sessions expire,
\* clock steps while the table fills
FewLogins == 2
SomeLogins == 3
FewAdvances == 2
RouteLogins == 1
MaxSaved == 2
TwicePuts == 2
LockLogins == 2
\* time(NULL) when the server starts
StartTime == 1

(***************************************************************************)
(* C strings                                                               *)
(***************************************************************************)
NUL == "NUL"

Min(a, b) == IF a < b THEN a ELSE b

\* s[p] with the terminating NUL at Len(s) + 1 (positions are 1-based)
CharAt(s, p) == IF p >= 1 /\ p <= Len(s) THEN s[p] ELSE NUL

\* snprintf(dst, size, "%s", s): at most size - 1 characters are kept
snprintf_s(s, size) == SubSeq(s, 1, Min(Len(s), size - 1))

\* strstr(s + from - 1, pat): position of the first occurrence, 0 if none
strstr_at(s, pat, p) == \A k \in 1..Len(pat) : s[p + k - 1] = pat[k]

strstr(s, pat, from) ==
    IF \E p \in from..(Len(s) - Len(pat) + 1) : strstr_at(s, pat, p)
    THEN CHOOSE p \in from..(Len(s) - Len(pat) + 1) :
            strstr_at(s, pat, p) /\ \A q \in from..(p - 1) : ~strstr_at(s, pat, q)
    ELSE 0

\* strchr(s, c): position of the first c, 0 if none
strchr(s, c) ==
    IF \E p \in 1..Len(s) : s[p] = c
    THEN CHOOSE p \in 1..Len(s) : s[p] = c /\ \A q \in 1..(p - 1) : s[q] # c
    ELSE 0

Letters == {"a","b","c","d","e","f","g","h","i","j","k","l","m","n","o","p","q",
            "r","s","t","u","v","w","x","y","z",
            "A","B","C","D","E","F","G","H","I","J","K","L","M","N","O","P","Q",
            "R","S","T","U","V","W","X","Y","Z"}
Digits == {"0","1","2","3","4","5","6","7","8","9"}
isalnum(c) == c \in Letters \cup Digits

WhiteSpace == {" ", "\t", "\n", "\r"}

\* skip_ws(s + p - 1): the first position from p on that holds no white space
\* (Len(s) + 1, the NUL, when there is none)
skip_ws(s, p) ==
    CHOOSE q \in p..(Len(s) + 1) :
        /\ CharAt(s, q) \notin WhiteSpace
        /\ \A r \in p..(q - 1) : CharAt(s, r) \in WhiteSpace

\* the k-th smallest element of a finite set of integers
Nth(S, k) == CHOOSE x \in S : Cardinality({y \in S : y < x}) = k - 1

(***************************************************************************)
(* config.c: JSON parsing helpers                                          *)
(***************************************************************************)
\* The copy loop of json_get_string from position pos, as what it computes.
\* The loop drops a backslash that is followed by a character and takes that
\* character whatever it is; it stops at the NUL, at a '"' it did not take that
\* way, or when the buffer holds buf_size - 1 characters.
\* json_escapes(json, pos, p): the loop drops the backslash at p, which is so
\* when an even number of backslashes lies between the last other character
\* (or pos) and p.
json_escapes(json, pos, p) ==
    LET others == {q \in (pos - 1)..(p - 1) : q = pos - 1 \/ json[q] # "\\"}
        last == CHOOSE q \in others : \A r \in others : r <= q
    IN /\ json[p] = "\\"
       /\ p < Len(json)
       /\ (p - 1 - last) % 2 = 0

json_copy_value(json, pos, buf_size) ==
    LET taken(p) == p > pos /\ json_escapes(json, pos, p - 1)
        ends == {p \in pos..(Len(json) + 1) :
                    CharAt(json, p) = NUL \/ (json[p] = "\"" /\ ~taken(p))}
        end == CHOOSE p \in ends : \A r \in ends : p <= r
        kept == {p \in pos..(end - 1) : ~json_escapes(json, pos, p)}
        n == Min(Cardinality(kept), buf_size - 1)
    IN SubSeq([k \in 1..n |-> json[Nth(kept, k)]], 1, n)

\* [rc, val]: rc = 0 and the value, or rc = -1 when the key is not found
json_get_string(json, key, buf_size) ==
    LET search == <<"\"">> \o key \o <<"\"">>
        found == strstr(json, search, 1)
        colon == skip_ws(json, found + Len(search))
        quote == skip_ws(json, colon + 1)
    IN IF found = 0 THEN [rc |-> -1, val |-> <<>>]
       ELSE IF CharAt(json, colon) # ":" THEN [rc |-> -1, val |-> <<>>]
       ELSE IF CharAt(json, quote) # "\"" THEN [rc |-> -1, val |-> <<>>]
       ELSE [rc |-> 0, val |-> json_copy_value(json, quote + 1, buf_size)]

\* position of the '[' of the "lights" array, 0 if not found
find_lights_array(json) ==
    LET found == strstr(json, <<"\"", "l", "i", "g", "h", "t", "s", "\"">>, 1)
        colon == skip_ws(json, found + 8)
        open == skip_ws(json, colon + 1)
    IN IF found = 0 THEN 0
       ELSE IF CharAt(json, colon) # ":" THEN 0
       ELSE IF CharAt(json, open) # "[" THEN 0
       ELSE open

\* The brace-matching loop of find_next_object from the '{' at start, as what
\* it computes: the position of the first '}' outside a string at which as
\* many '}' as '{' were seen outside strings, 0 if the text ends first.  A '"'
\* switches in_string unless the character before it is a backslash.
match_brace(json, start) ==
    LET quotes == {q \in start..Len(json) :
                      json[q] = "\"" /\ (q = start \/ json[q - 1] # "\\")}
        in_string(p) == Cardinality({q \in quotes : q <= p}) % 2 = 1
        opens == {q \in start..Len(json) : json[q] = "{" /\ ~in_string(q)}
        shuts == {q \in start..Len(json) : json[q] = "}" /\ ~in_string(q)}
        depth(p) == Cardinality({q \in opens : q <= p})
                    - Cardinality({q \in shuts : q <= p})
        closes == {p \in shuts : depth(p) = 0}
    IN IF closes = {} THEN 0 ELSE CHOOSE p \in closes : \A r \in closes : p <= r

\* [rc, start, end]
find_next_object(json, p) ==
    LET p1 == skip_ws(json, p)
        p2 == IF CharAt(json, p1) = "," THEN skip_ws(json, p1 + 1) ELSE p1
        close == match_brace(json, p2)
    IN IF CharAt(json, p2) # "{" THEN [rc |-> -1, start |-> 0, end |-> 0]
       ELSE IF close = 0 THEN [rc |-> -1, start |-> 0, end |-> 0]
       ELSE [rc |-> 0, start |-> p2, end |-> close]

(***************************************************************************)
(* config.c: validation helpers                                            *)
(***************************************************************************)
\* faulty variant: every entity id is accepted
validate_entity_id_accepts_all(entity_id) == 0

\* 0 if valid, -1 if invalid
validate_entity_id(entity_id) ==
    LET dot == strchr(entity_id, ".")
    IN IF Len(entity_id) = 0 THEN -1
       ELSE IF dot = 0 \/ dot = 1 \/ dot = Len(entity_id) THEN -1
       ELSE IF \E p \in 1..(dot - 1) : ~isalnum(entity_id[p]) /\ entity_id[p] # "_"
            THEN -1
       ELSE IF \E p \in (dot + 1)..Len(entity_id) :
                    ~isalnum(entity_id[p]) /\ entity_id[p] # "_"
            THEN -1
       ELSE 0

validate_label(label) ==
    IF Len(label) = 0 THEN -1
    ELSE IF Len(label) > 31 THEN -1
    ELSE 0

(***************************************************************************)
(* config.c: config_t, config_load, config_save                            *)
(***************************************************************************)
\* a zeroed light_config_t / config_t (memset 0)
EmptyLight == [entity_id |-> <<>>, label |-> <<>>, icon |-> <<>>]

EmptyConfig ==
    [ha |-> [base_url |-> <<>>, token |-> <<>>],
     web_password_hash |-> <<>>,
     lights |-> <<>>,
     light_count |-> 0]

\* lights[i] of a config_t (0-based); slots past light_count are zeroed
LightAt(cfg, i) == IF i >= 0 /\ i < Len(cfg.lights) THEN cfg.lights[i + 1] ELSE EmptyLight

\* the while loop of config_load over the objects of the lights array:
\* [rc, lights, p], rc = -1 on a missing key or an invalid light
\* one pass of the loop for the object obj found at p
RECURSIVE load_lights(_, _, _)
load_light(json, p, lights, obj, eid, lbl, ico) ==
    IF obj.rc # 0 THEN [rc |-> 0, lights |-> lights, p |-> p]
    ELSE IF eid.rc # 0 \/ lbl.rc # 0 \/ ico.rc # 0
         THEN [rc |-> -1, lights |-> lights, p |-> p]
    ELSE IF validate_entity_id(eid.val) # 0 \/ validate_label(lbl.val) # 0
         THEN [rc |-> -1, lights |-> lights, p |-> p]
    ELSE load_lights(json, obj.end + 1,
                     Append(lights, [entity_id |-> eid.val,
                                     label |-> lbl.val,
                                     icon |-> ico.val]))

load_lights(json, p, lights) ==
    IF Len(lights) >= CONFIG_MAX_LIGHTS THEN [rc |-> 0, lights |-> lights, p |-> p]
    ELSE CHOOSE r \in
            {load_light(json, p, lights, obj,
                        json_get_string(obj_buf, <<"e","n","t","i","t","y","_","i","d">>,
                                        ENTITY_ID_SIZE),
                        json_get_string(obj_buf, <<"l","a","b","e","l">>, LABEL_SIZE),
                        json_get_string(obj_buf, <<"i","c","o","n">>, ICON_SIZE)) :
                <<obj, obj_buf>> \in
                    {<<o, IF o.rc = 0 THEN SubSeq(json, o.start, o.end) ELSE <<>>>> :
                        o \in {find_next_object(json, p)}}} : TRUE

\* read_file: NULL (here FALSE) for a file of length <= 0
read_file(text) == Len(text) > 0

\* [rc, cfg]: the aggregate parsed from the file text, rc = -1 on error
config_load(text) ==
    LET url == json_get_string(text, <<"h","a","_","u","r","l">>, BASE_URL_SIZE)
        tok == json_get_string(text, <<"h","a","_","t","o","k","e","n">>, TOKEN_SIZE)
        hash == json_get_string(text, <<"w","e","b","_","p","a","s","s","w","o","r","d",
                                        "_","h","a","s","h">>, CONFIG_WEB_HASH_MAX)
        head == [ha |-> [base_url |-> IF url.rc = 0 THEN url.val ELSE <<>>,
                         token |-> IF tok.rc = 0 THEN tok.val ELSE <<>>],
                 web_password_hash |-> IF hash.rc = 0 THEN hash.val ELSE <<>>,
                 lights |-> <<>>,
                 light_count |-> 0]
        arr == find_lights_array(text)
        ll == load_lights(text, arr + 1, <<>>)
    IN IF ~read_file(text) THEN [rc |-> -1, cfg |-> EmptyConfig]
       ELSE IF arr = 0 THEN [rc |-> 0, cfg |-> head]
       ELSE IF ll.rc # 0 THEN [rc |-> -1, cfg |-> head]
       ELSE IF Len(ll.lights) >= CONFIG_MAX_LIGHTS /\ find_next_object(text, ll.p).rc = 0
            THEN [rc |-> -1, cfg |-> head]
       ELSE [rc |-> 0, cfg |-> [head EXCEPT !.lights = ll.lights,
                                            !.light_count = Len(ll.lights)]]

\* the lines config_save prints for lights i..light_count-1 (0-based)
RECURSIVE save_lights(_, _)
save_lights(cfg, i) ==
    IF i >= cfg.light_count THEN <<>>
    ELSE LET l == LightAt(cfg, i)
         IN <<" ", " ", " ", " ", "{", " ", "\"", "e", "n", "t", "i", "t", "y", "_", "i", "d",
              "\"", ":", " ", "\"">> \o l.entity_id
            \o <<"\"", ",", " ", "\"", "l", "a", "b", "e", "l", "\"", ":", " ", "\"">> \o l.label
            \o <<"\"", ",", " ", "\"", "i", "c", "o", "n", "\"", ":", " ", "\"">> \o l.icon
            \o <<"\"", " ", "}">>
            \o (IF i < cfg.light_count - 1 THEN <<",">> ELSE <<>>)
            \o <<"\n">>
            \o save_lights(cfg, i + 1)

\* the text config_save writes for cfg
config_save(cfg) ==
    <<"{", "\n">>
    \o <<" ", " ", "\"", "h", "a", "_", "u", "r", "l", "\"", ":", " ", "\"">>
    \o cfg.ha.base_url \o <<"\"", ",", "\n">>
    \o <<" ", " ", "\"", "h", "a", "_", "t", "o", "k", "e", "n", "\"", ":", " ", "\"">>
    \o cfg.ha.token \o <<"\"", ",", "\n">>
    \o <<" ", " ", "\"", "w", "e", "b", "_", "p", "a", "s", "s", "w", "o", "r", "d", "_",
         "h", "a", "s", "h", "\"", ":", " ", "\"">>
    \o cfg.web_password_hash \o <<"\"", ",", "\n">>
    \o <<" ", " ", "\"", "l", "i", "g", "h", "t", "s", "\"", ":", " ", "[", "\n">>
    \o save_lights(cfg, 0)
    \o <<" ", " ", "]", "\n">>
    \o <<"}", "\n">>

(***************************************************************************)
(* light_ui.c: the light registry                                          *)
(*                                                                         *)
(* The registry is the record                                              *)
(*   [light_screen, light_count, page_count, current_page,                 *)
(*    tile_config, tile_runtime, toggle_cb]                                *)
(* of the module-level statics of light_ui.c; tile_config and tile_runtime *)
(* hold the first light_count array slots.                                 *)
(***************************************************************************)
NoCallback == "NULL"

\* the statics before light_ui_init
ui_statics ==
    [light_screen |-> FALSE,
     light_count |-> 0,
     page_count |-> 0,
     current_page |-> 0,
     tile_config |-> <<>>,
     tile_runtime |-> <<>>,
     toggle_cb |-> NoCallback]

\* the runtime state create_tile gives a new tile
create_tile_runtime ==
    [state |-> LIGHT_STATE_UNKNOWN,
     optimistic |-> LIGHT_STATE_UNKNOWN,
     last_updated_ms |-> 0]

\* faulty variant: the new tiles are created showing OFF
light_ui_init_shows_off(u, lights, count) ==
    LET c == IF count > LIGHT_MAX_COUNT THEN LIGHT_MAX_COUNT
             ELSE IF count < 0 THEN 0 ELSE count
        pc == (c + LIGHT_PER_PAGE - 1) \div LIGHT_PER_PAGE
    IN [u EXCEPT !.light_count = c,
                 !.page_count = IF pc = 0 THEN 1 ELSE pc,
                 !.current_page = 0,
                 !.tile_config = [k \in 1..c |-> IF k <= Len(lights) THEN lights[k]
                                                 ELSE EmptyLight],
                 !.tile_runtime = [k \in 1..c |-> [state |-> LIGHT_STATE_OFF,
                                                   optimistic |-> LIGHT_STATE_OFF,
                                                   last_updated_ms |-> 0]],
                 !.light_screen = TRUE]

light_ui_init(u, lights, count) ==
    LET c0 == IF count > LIGHT_MAX_COUNT THEN LIGHT_MAX_COUNT ELSE count
        c == IF c0 < 0 THEN 0 ELSE c0
        pc == (c + LIGHT_PER_PAGE - 1) \div LIGHT_PER_PAGE
    IN [u EXCEPT !.light_count = c,
                 !.page_count = IF pc = 0 THEN 1 ELSE pc,
                 !.current_page = 0,
                 !.tile_config = [k \in 1..c |-> IF k <= Len(lights) THEN lights[k]
                                                 ELSE EmptyLight],
                 !.tile_runtime = [k \in 1..c |-> create_tile_runtime],
                 !.light_screen = TRUE]

\* faulty variant: the confirmed state is written, the optimistic one is not
light_ui_set_state_keeps_optimistic(u, index, state, tick) ==
    IF index < 0 \/ index >= u.light_count THEN u
    ELSE [u EXCEPT !.tile_runtime[index + 1].state = state,
                   !.tile_runtime[index + 1].last_updated_ms = tick]

light_ui_set_state(u, index, state, tick) ==
    IF index < 0 \/ index >= u.light_count THEN u
    ELSE [u EXCEPT !.tile_runtime[index + 1] =
                       [state |-> state, optimistic |-> state, last_updated_ms |-> tick]]

light_ui_set_toggle_cb(u, cb) == [u EXCEPT !.toggle_cb = cb]

light_ui_destroy(u) ==
    [light_screen |-> FALSE,
     light_count |-> 0,
     page_count |-> 0,
     current_page |-> 0,
     tile_config |-> <<>>,
     tile_runtime |-> <<>>,
     toggle_cb |-> NoCallback]

\* faulty variant: a swipe moves the page without looking at the page count
gesture_event_cb_unclamped(u, dir) ==
    CASE dir = "LV_DIR_LEFT" -> [u EXCEPT !.current_page = u.current_page + 1]
      [] dir = "LV_DIR_RIGHT" -> [u EXCEPT !.current_page = u.current_page - 1]
      [] OTHER -> u

\* gesture_event_cb for a gesture of direction dir
gesture_event_cb(u, dir) ==
    CASE dir = "LV_DIR_LEFT" ->
            IF u.current_page < u.page_count - 1
            THEN [u EXCEPT !.current_page = u.current_page + 1] ELSE u
      [] dir = "LV_DIR_RIGHT" ->
            IF u.current_page > 0
            THEN [u EXCEPT !.current_page = u.current_page - 1] ELSE u
      [] OTHER -> u

light_ui_set_page(u, page) ==
    LET p0 == IF page < 0 THEN 0 ELSE page
        p1 == IF p0 >= u.page_count THEN u.page_count - 1 ELSE p0
    IN [u EXCEPT !.current_page = p1]

\* the opposite state tile_click_cb computes
tile_click_next(current) ==
    CASE current = LIGHT_STATE_ON -> LIGHT_STATE_OFF
      [] current = LIGHT_STATE_OFF -> LIGHT_STATE_ON
      [] OTHER -> LIGHT_STATE_ON

\* faulty variant: the tap flips every tile
tile_click_cb_flips_all(u, index) ==
    IF index < 0 \/ index >= u.light_count THEN [ui |-> u, cb |-> <<>>]
    ELSE [ui |-> [u EXCEPT !.tile_runtime =
                     [k \in 1..Len(u.tile_runtime) |->
                        [u.tile_runtime[k] EXCEPT
                           !.optimistic = tile_click_next(u.tile_runtime[k].optimistic)]]],
          cb |-> IF u.toggle_cb # NoCallback
                 THEN <<u.tile_config[index + 1].entity_id,
                        u.tile_runtime[index + 1].optimistic>>
                 ELSE <<>>]

\* [ui, cb]: the registry after the tap and the arguments the toggle callback
\* is invoked with (<<>> when it is not invoked)
tile_click_cb(u, index) ==
    IF index < 0 \/ index >= u.light_count THEN [ui |-> u, cb |-> <<>>]
    ELSE LET current == u.tile_runtime[index + 1].optimistic
         IN [ui |-> [u EXCEPT !.tile_runtime[index + 1].optimistic =
                                  tile_click_next(current)],
             cb |-> IF u.toggle_cb # NoCallback
                    THEN <<u.tile_config[index + 1].entity_id, current>>
                    ELSE <<>>]

(***************************************************************************)
(* ha_client.c: the Home Assistant client                                  *)
(*                                                                         *)
(* The client is the record [s_curl, s_base_url, s_headers].  A transfer   *)
(* ends with a CURLcode, a status code and a body.                         *)
(***************************************************************************)
ha_statics == [s_curl |-> FALSE, s_base_url |-> <<>>, s_headers |-> <<>>]

\* [rc, val]: the value of the first "state" key followed by ':' and '"'
RECURSIVE parse_state_field(_, _, _)
parse_state_field(json, from, buf_size) ==
    LET key == strstr(json, <<"\"", "s", "t", "a", "t", "e", "\"">>, from)
        colon == skip_ws(json, key + 7)
        quote == skip_ws(json, colon + 1)
        close == strstr(json, <<"\"">>, quote + 1)
        stop == IF close = 0 THEN Len(json) + 1 ELSE close
    IN IF key = 0 THEN [rc |-> -1, val |-> <<>>]
       ELSE IF CharAt(json, colon) # ":" THEN parse_state_field(json, colon, buf_size)
       ELSE IF CharAt(json, quote) # "\"" THEN parse_state_field(json, quote, buf_size)
       ELSE [rc |-> 0,
             val |-> SubSeq(json, quote + 1, Min(stop - 1, quote + buf_size - 1))]

state_str_to_enum(state_str) ==
    IF state_str = <<"o", "n">> THEN LIGHT_STATE_ON
    ELSE IF state_str = <<"o", "f", "f">> THEN LIGHT_STATE_OFF
    ELSE LIGHT_STATE_UNKNOWN

\* [rc, http_code, data] of a transfer that ended as xfer
ha_http_get(xfer) ==
    IF xfer.res # "CURLE_OK" THEN [rc |-> -1, http_code |-> 0, data |-> <<>>]
    ELSE [rc |-> 0, http_code |-> xfer.http_code, data |-> xfer.data]

ha_http_post(xfer) ==
    IF xfer.res # "CURLE_OK" THEN [rc |-> -1, http_code |-> 0, data |-> <<>>]
    ELSE [rc |-> 0, http_code |-> xfer.http_code, data |-> xfer.data]

\* the client after ha_client_init(base_url, token); ok is the result of
\* curl_easy_init
ha_client_init(h, base_url, token, ok) ==
    LET b == snprintf_s(base_url, 256)
        stripped == IF Len(b) > 0 /\ b[Len(b)] = "/" THEN SubSeq(b, 1, Len(b) - 1) ELSE b
    IN IF ~ok THEN [h EXCEPT !.s_base_url = stripped]
       ELSE [s_curl |-> TRUE, s_base_url |-> stripped, s_headers |-> token]

\* ha_client_cleanup(): the handle and the headers are freed
ha_client_cleanup(h) == [s_curl |-> FALSE, s_base_url |-> <<>>, s_headers |-> <<>>]

states_url(h, entity_id) ==
    snprintf_s(h.s_base_url \o <<"/", "a", "p", "i", "/", "s", "t", "a", "t", "e", "s", "/">>
               \o entity_id, 512)

ha_get_state(h, entity_id, xfer) ==
    LET r == ha_http_get(xfer)
        st == parse_state_field(r.data, 1, 32)
    IN IF ~h.s_curl THEN LIGHT_STATE_UNKNOWN
       ELSE IF r.rc # 0 THEN LIGHT_STATE_UNKNOWN
       ELSE IF r.http_code >= 400 THEN LIGHT_STATE_UNKNOWN
       ELSE IF st.rc # 0 THEN LIGHT_STATE_UNKNOWN
       ELSE state_str_to_enum(st.val)

\* the domain ha_toggle_light takes from the entity id
toggle_domain(entity_id) ==
    LET dot == strchr(entity_id, ".")
    IN IF dot # 0 THEN SubSeq(entity_id, 1, Min(dot - 1, DOMAIN_SIZE - 1))
       ELSE <<"l", "i", "g", "h", "t">>

\* faulty variant: the command does not depend on the state read
toggle_service_always_on(current) == <<"t", "u", "r", "n", "_", "o", "n">>

\* the service ha_toggle_light calls for the state it has read
toggle_service(current) ==
    IF current = LIGHT_STATE_ON THEN <<"t", "u", "r", "n", "_", "o", "f", "f">>
    ELSE <<"t", "u", "r", "n", "_", "o", "n">>

\* [rc, reqs]: the result and the requests issued, in order; get and post are
\* how the two transfers end
ha_toggle_light(h, entity_id, get, post) ==
    LET current == ha_get_state(h, entity_id, get)
        url == snprintf_s(h.s_base_url
                          \o <<"/", "a", "p", "i", "/", "s", "e", "r", "v", "i", "c", "e", "s", "/">>
                          \o toggle_domain(entity_id) \o <<"/">> \o toggle_service(current),
                          512)
        body == snprintf_s(<<"{", "\"", "e", "n", "t", "i", "t", "y", "_", "i", "d", "\"", ":",
                             " ", "\"">> \o entity_id \o <<"\"", "}">>, 128)
        reqs == << [method |-> "GET", url |-> states_url(h, entity_id), body |-> <<>>],
                   [method |-> "POST", url |-> url, body |-> body] >>
        r == ha_http_post(post)
    IN IF ~h.s_curl THEN [rc |-> -1, reqs |-> <<>>]
       ELSE IF r.rc # 0 THEN [rc |-> -1, reqs |-> reqs]
       ELSE IF r.http_code >= 400 THEN [rc |-> -1, reqs |-> reqs]
       ELSE [rc |-> 0, reqs |-> reqs]

\* faulty variant: the answer of the remote is thrown away
ha_poll_one_ignores_answer(u, i, xfer, tick) == u

\* faulty variant: a failed transfer resets the light to UNKNOWN
ha_poll_one_resets_on_failure(u, i, xfer, tick) ==
    LET r == ha_http_get(xfer)
        st == parse_state_field(r.data, 1, 32)
    IN IF r.rc # 0 THEN light_ui_set_state(u, i, LIGHT_STATE_UNKNOWN, tick)
       ELSE IF r.http_code >= 400 THEN light_ui_set_state(u, i, LIGHT_STATE_UNKNOWN, tick)
       ELSE IF st.rc # 0 THEN light_ui_set_state(u, i, LIGHT_STATE_UNKNOWN, tick)
       ELSE light_ui_set_state(u, i, state_str_to_enum(st.val), tick)

\* faulty variant: an HTTP error status is skipped like a failed transfer
ha_poll_one_keeps_on_http_error(u, i, xfer, tick) ==
    LET r == ha_http_get(xfer)
        st == parse_state_field(r.data, 1, 32)
    IN IF r.rc # 0 THEN u
       ELSE IF r.http_code >= 400 THEN u
       ELSE IF st.rc # 0 THEN light_ui_set_state(u, i, LIGHT_STATE_UNKNOWN, tick)
       ELSE light_ui_set_state(u, i, state_str_to_enum(st.val), tick)

\* one iteration of the loop of ha_poll_all for index i: the registry after it
ha_poll_one(u, i, xfer, tick) ==
    LET r == ha_http_get(xfer)
        st == parse_state_field(r.data, 1, 32)
    IN IF r.rc # 0 THEN u
       ELSE IF r.http_code >= 400 THEN light_ui_set_state(u, i, LIGHT_STATE_UNKNOWN, tick)
       ELSE IF st.rc # 0 THEN light_ui_set_state(u, i, LIGHT_STATE_UNKNOWN, tick)
       ELSE light_ui_set_state(u, i, state_str_to_enum(st.val), tick)

\* faulty variant: the loop ends at the first HTTP error status
ha_poll_next_stops_on_http_error(i, count, xfer) ==
    IF xfer.res = "CURLE_OK" /\ xfer.http_code >= 400 THEN count ELSE i + 1

\* faulty variant: the loop ends at the first failed transfer
ha_poll_next_stops_on_failure(i, count, xfer) ==
    IF xfer.res # "CURLE_OK" THEN count ELSE i + 1

\* the index the loop of ha_poll_all goes on with after iteration i
ha_poll_next(i, count, xfer) == i + 1

\* whether ha_poll_all(lights, count) enters its loop
ha_poll_all_enters(h, count) == h.s_curl /\ count > 0

(***************************************************************************)
(* config_server.c: POST /api/config                                       *)
(*                                                                         *)
(* A request body is the record [ha_url, ha_token, lights] of the string   *)
(* values mg_json_get_str finds at the paths $.ha_url, $.ha_token and      *)
(* $.lights[i].{entity_id,label,icon}; Absent stands for a path that has   *)
(* no string value.                                                        *)
(***************************************************************************)
Absent == <<NUL>>

\* [len, buf]: len = -1 when the path has no string value
json_extract_str(val, buf_size) ==
    IF val = Absent THEN [len |-> -1, buf |-> <<>>]
    ELSE [len |-> Min(Len(val), buf_size - 1), buf |-> snprintf_s(val, buf_size)]

\* the loop of handle_config_update over $.lights[i], from index i
RECURSIVE extract_lights(_, _, _)
extract_lights(body, i, lights) ==
    IF i >= CONFIG_MAX_LIGHTS THEN lights
    ELSE LET item == IF i < Len(body.lights) THEN body.lights[i + 1]
                     ELSE [entity_id |-> Absent, label |-> Absent, icon |-> Absent]
             eid == json_extract_str(item.entity_id, 512)
             lbl == json_extract_str(item.label, 512)
             ico == json_extract_str(item.icon, 512)
         IN IF eid.len <= 0 THEN lights
            ELSE extract_lights(body, i + 1,
                    Append(lights,
                           [entity_id |-> snprintf_s(eid.buf, ENTITY_ID_SIZE),
                            label |-> IF lbl.len > 0 THEN snprintf_s(lbl.buf, LABEL_SIZE)
                                      ELSE <<>>,
                            icon |-> IF ico.len > 0 THEN snprintf_s(ico.buf, ICON_SIZE)
                                     ELSE <<>>]))

\* new_cfg as handle_config_update builds it from the body; cur is *s_cfg
handle_config_update_parse(body, cur) ==
    LET url == json_extract_str(body.ha_url, 512)
        tok == json_extract_str(body.ha_token, 512)
        lights == extract_lights(body, 0, <<>>)
    IN [ha |-> [base_url |-> IF url.len > 0 THEN snprintf_s(url.buf, BASE_URL_SIZE)
                             ELSE <<>>,
                token |-> IF tok.len > 0 THEN snprintf_s(tok.buf, TOKEN_SIZE) ELSE <<>>],
        web_password_hash |-> snprintf_s(cur.web_password_hash, CONFIG_WEB_HASH_MAX),
        lights |-> lights,
        light_count |-> Len(lights)]

\* json_escape(dst, dst_size, src) from position k of src on: dst
RECURSIVE json_escape(_, _, _, _)
json_escape(dst, dst_size, src, k) ==
    IF k > Len(src) \/ Len(dst) >= dst_size - 2 THEN dst
    ELSE IF src[k] \in {"\"", "\\"}
         THEN IF Len(dst) + 2 >= dst_size THEN dst
              ELSE json_escape(dst \o <<"\\", src[k]>>, dst_size, src, k + 1)
    ELSE json_escape(Append(dst, src[k]), dst_size, src, k + 1)

\* the loop of serve_config_json from light i on, off characters being written
RECURSIVE serve_lights(_, _, _, _)
serve_lights(cfg, i, off, out) ==
    IF ~(i < cfg.light_count /\ off < 4096 - 200) THEN out
    ELSE LET eid == json_escape(<<>>, 128, LightAt(cfg, i).entity_id, 1)
             lbl == json_escape(<<>>, 64, LightAt(cfg, i).label, 1)
             ico == json_escape(<<>>, 16, LightAt(cfg, i).icon, 1)
             n == (IF i > 0 THEN 1 ELSE 0) + 37 + Len(eid) + Len(lbl) + Len(ico)
         IN serve_lights(cfg, i + 1, off + n,
                         Append(out, [entity_id |-> eid, label |-> lbl, icon |-> ico]))

\* serve_config_json: the string values of the JSON document it replies with,
\* as they stand in the text (escaped)
serve_config_json(cfg) ==
    LET url_esc == json_escape(<<>>, 256, cfg.ha.base_url, 1)
        token_esc == json_escape(<<>>, 1024, cfg.ha.token, 1)
    IN [ha_url |-> url_esc,
        ha_token |-> token_esc,
        lights |-> serve_lights(cfg, 0, 37 + Len(url_esc) + Len(token_esc), <<>>)]

(***************************************************************************)
(* config_server.c: sessions and login                                     *)
(*                                                                         *)
(* The session table is the sequence s_sessions of MAX_SESSIONS records    *)
(* [token, last_active]; last_active = 0 marks an unused slot and <<>> is  *)
(* the empty token.  Times are the seconds time(NULL) returns.             *)
(***************************************************************************)
MAX_SESSIONS == 8
SESSION_TOKEN_BYTES == 32
SESSION_TOKEN_HEX == SESSION_TOKEN_BYTES * 2
SESSION_TIMEOUT_SEC == 3600
LOGIN_FAIL_DELAY_MS == 1000

FreeSlot == [token |-> <<>>, last_active |-> 0]

\* s_sessions after memset(s_sessions, 0, sizeof(s_sessions))
NoSessions == [k \in 1..MAX_SESSIONS |-> FreeSlot]

HexDigits == <<"0", "1", "2", "3", "4", "5", "6", "7", "8", "9", "a", "b", "c", "d", "e", "f">>

\* snprintf(buf + i * 2, 3, "%02x", raw[i]) for every byte of raw
hex_string(raw) ==
    [n \in 1..(2 * Len(raw)) |->
        IF n % 2 = 1 THEN HexDigits[(raw[(n + 1) \div 2] \div 16) + 1]
        ELSE HexDigits[(raw[n \div 2] % 16) + 1]]

\* [rc, buf]: raw is what fread got from /dev/urandom, ok whether fopen and
\* fread succeeded
generate_session_token(raw, buf_size, ok) ==
    IF buf_size < SESSION_TOKEN_HEX + 1 THEN [rc |-> -1, buf |-> <<>>]
    ELSE IF ~ok THEN [rc |-> -1, buf |-> <<>>]
    ELSE [rc |-> 0, buf |-> hex_string(raw)]

\* the loop of session_create from slot i (0-based): the first unused slot,
\* else the first slot with the smallest last_active
RECURSIVE session_create_scan(_, _, _, _)
session_create_scan(S, i, oldest_idx, oldest_time) ==
    IF i >= MAX_SESSIONS THEN oldest_idx
    ELSE IF S[i + 1].last_active = 0 THEN i
    ELSE IF S[i + 1].last_active < oldest_time
         THEN session_create_scan(S, i + 1, i, S[i + 1].last_active)
    ELSE session_create_scan(S, i + 1, oldest_idx, oldest_time)

\* faulty variant: a full table gives up its first slot, the oldest by creation
session_create_evicts_first(S, token_out, t) ==
    LET free == { k \in 1..MAX_SESSIONS : S[k].last_active = 0 }
        idx == IF free = {} THEN 1
               ELSE CHOOSE k \in free : \A j \in free : k <= j
    IN [S EXCEPT ![idx] =
            [token |-> snprintf_s(token_out, SESSION_TOKEN_HEX + 1), last_active |-> t]]

\* faulty variant: the slot is chosen by age alone, a free slot counting as
\* the youngest
session_create_ignores_free(S, token_out, t) ==
    LET age(k) == IF S[k].last_active = 0 THEN t + 1 ELSE S[k].last_active
        idx == CHOOSE k \in 1..MAX_SESSIONS :
                  \A j \in 1..MAX_SESSIONS : age(k) < age(j) \/ (age(k) = age(j) /\ k <= j)
    IN [S EXCEPT ![idx] =
            [token |-> snprintf_s(token_out, SESSION_TOKEN_HEX + 1), last_active |-> t]]

\* s_sessions after session_create has stored token_out at time t
session_create(S, token_out, t) ==
    LET oldest_idx == session_create_scan(S, 0, 0, S[1].last_active)
    IN [S EXCEPT ![oldest_idx + 1] =
            [token |-> snprintf_s(token_out, SESSION_TOKEN_HEX + 1), last_active |-> t]]

\* the loop of session_validate from slot i (0-based): [rc, sessions]
RECURSIVE session_validate_scan(_, _, _, _)
session_validate_scan(S, token, t, i) ==
    IF i >= MAX_SESSIONS THEN [rc |-> 0, sessions |-> S]
    ELSE IF S[i + 1].last_active = 0 THEN session_validate_scan(S, token, t, i + 1)
    ELSE IF t - S[i + 1].last_active > SESSION_TIMEOUT_SEC
         THEN session_validate_scan([S EXCEPT ![i + 1] = FreeSlot], token, t, i + 1)
    ELSE IF S[i + 1].token = token
         THEN [rc |-> 1, sessions |-> [S EXCEPT ![i + 1].last_active = t]]
    ELSE session_validate_scan(S, token, t, i + 1)

\* faulty variant: a session is valid however long ago it was last active
session_validate_never_expires(S, token, t) ==
    IF token # <<>> /\ \E k \in 1..MAX_SESSIONS : S[k].last_active # 0 /\ S[k].token = token
    THEN [rc |-> 1,
          sessions |-> [k \in 1..MAX_SESSIONS |->
                           IF S[k].last_active # 0 /\ S[k].token = token
                           THEN [S[k] EXCEPT !.last_active = t] ELSE S[k]]]
    ELSE [rc |-> 0, sessions |-> S]

\* faulty variant: an expired session is refused but keeps its slot
session_validate_leaves_expired(S, token, t) ==
    IF token # <<>> /\ \E k \in 1..MAX_SESSIONS :
                          /\ S[k].last_active # 0
                          /\ S[k].token = token
                          /\ t - S[k].last_active <= SESSION_TIMEOUT_SEC
    THEN [rc |-> 1,
          sessions |-> [k \in 1..MAX_SESSIONS |->
                           IF S[k].last_active # 0 /\ S[k].token = token
                           THEN [S[k] EXCEPT !.last_active = t] ELSE S[k]]]
    ELSE [rc |-> 0, sessions |-> S]

\* [rc, sessions]: 1 if token is valid at time t, 0 if invalid or expired
session_validate(S, token, t) ==
    IF token = <<>> THEN [rc |-> 0, sessions |-> S]
    ELSE session_validate_scan(S, token, t, 0)

\* the loop of session_destroy from slot i (0-based)
RECURSIVE session_destroy_scan(_, _, _)
session_destroy_scan(S, token, i) ==
    IF i >= MAX_SESSIONS THEN S
    ELSE IF S[i + 1].last_active # 0 /\ S[i + 1].token = token
         THEN [S EXCEPT ![i + 1] = FreeSlot]
    ELSE session_destroy_scan(S, token, i + 1)

\* faulty variant: a logout ends every session
session_destroy_clears_all(S, token) ==
    IF token = <<>> THEN S ELSE NoSessions

\* s_sessions after session_destroy(token)
session_destroy(S, token) ==
    IF token = <<>> THEN S ELSE session_destroy_scan(S, token, 0)

\* the token get_session_cookie copies out of the cookie value val
get_session_cookie(val, buf_size) ==
    IF Len(val) > 0 /\ Len(val) < buf_size THEN val ELSE <<>>

is_authenticated(S, val, t) ==
    session_validate(S, get_session_cookie(val, SESSION_TOKEN_HEX + 1), t)

\* crypt_r(password, setting): the stored hash "$" is the hash of "p"
crypt_r(password, setting) ==
    IF setting = <<"$">> /\ password = <<"p">> THEN <<"$">> ELSE <<"*", "0">>

\* faulty variant: every password is taken for the right one
verify_password_accepts_all(password, hash) == 1

\* 1 on match, 0 on mismatch
verify_password(password, hash) ==
    IF hash = <<>> THEN 0
    ELSE IF crypt_r(password, hash) = hash THEN 1 ELSE 0

\* the branch of ev_handler that a request with this method and URI takes,
\* in the order ev_handler tests them
ev_handler_route(method, uri) ==
    IF uri = "/" /\ method = "GET" THEN "login_page"
    ELSE IF uri = "/login" /\ method = "POST" THEN "login"
    ELSE IF uri = "/logout" /\ method = "POST" THEN "logout"
    ELSE IF uri = "/settings" /\ method = "GET" THEN "settings"
    ELSE IF uri = "/api/config" /\ method = "GET" THEN "config_json"
    ELSE IF uri = "/api/config" /\ method = "POST" THEN "config_update"
    ELSE "not_found"

\* [status, location, body] of mg_http_reply for a route other than POST /login
\* and POST /api/config; authed: what is_authenticated returned
ev_handler_reply(route, authed) ==
    IF route = "login_page"
    THEN IF authed = 1 THEN [status |-> 302, location |-> "/settings", body |-> ""]
         ELSE [status |-> 200, location |-> "", body |-> "login_page"]
    ELSE IF route = "logout" THEN [status |-> 200, location |-> "", body |-> "ok"]
    ELSE IF authed # 1 THEN [status |-> 302, location |-> "/", body |-> ""]
    ELSE IF route = "settings" THEN [status |-> 200, location |-> "", body |-> "settings_page"]
    ELSE IF route = "config_json" THEN [status |-> 200, location |-> "", body |-> "config_json"]
    ELSE [status |-> 404, location |-> "", body |-> "not_found"]

\* the status ev_handler replies with after handle_config_update returned rc
config_update_status(rc) == IF rc = 0 THEN 200 ELSE 500

\* faulty variant: main() gives up when no endpoint is configured
main_fails_without_endpoint(ld) == ld.rc # 0 \/ ld.cfg.ha.base_url = <<>>

\* main(): the one startup failure after the drivers that ends the program
main_fails(ld) == ld.rc # 0

\* faulty variant: the call returns whether or not the thread has returned
pthread_join_never_waits(pc) == TRUE

\* pthread_join(s_thread, NULL) returns when server_thread has returned
pthread_join(pc) == pc = "off"

\* faulty variant: the call returns whether or not the mutex is held
pthread_mutex_lock_never_waits(lock) == TRUE

\* pthread_mutex_lock(&s_session_lock) returns when no thread holds the mutex
pthread_mutex_lock(lock) == lock = 0

(***************************************************************************)
(* The environment: configuration files, request bodies, remote answers    *)
(***************************************************************************)
LightA == [entity_id |-> <<"l", ".", "a">>, label |-> <<"A">>, icon |-> <<"i">>]
LightB == [entity_id |-> <<"s", ".", "b">>, label |-> <<"B">>, icon |-> <<"i">>]
LightBad == [entity_id |-> <<"l", "a">>, label |-> <<"A">>, icon |-> <<"i">>]

\* the aggregates a configuration file holds at startup
InitialAggregates ==
    { [ha |-> [base_url |-> <<"h">>, token |-> <<"t">>],
       web_password_hash |-> <<"$">>,
       lights |-> <<LightA, LightB>>,
       light_count |-> 2],
      [ha |-> [base_url |-> <<>>, token |-> <<>>],
       web_password_hash |-> <<"$">>,
       lights |-> <<LightA>>,
       light_count |-> 1],
      [ha |-> [base_url |-> <<"h">>, token |-> <<"t">>],
       web_password_hash |-> <<"$">>,
       lights |-> <<LightBad>>,
       light_count |-> 1] }

\* the bodies posted to /api/config
Bodies ==
    { [ha_url |-> <<"h">>, ha_token |-> <<"t">>, lights |-> <<LightB>>],
      [ha_url |-> <<"h">>, ha_token |-> <<"t">>, lights |-> <<LightBad>>] }

\* the body of a state answer of the remote API
StateBody(state_str) ==
    <<"{", "\"", "s", "t", "a", "t", "e", "\"", ":", " ", "\"">> \o state_str \o <<"\"", "}">>

ErrorBody == <<"{", "\"", "m", "e", "s", "s", "a", "g", "e", "\"", ":", " ", "\"", "x", "\"", "}">>

ServerStates == { <<"o", "n">>, <<"o", "f", "f">>,
                  <<"u", "n", "a", "v", "a", "i", "l", "a", "b", "l", "e">> }

\* how a GET transfer can end: res is the CURLcode, server the state the
\* remote reported (<<>> when it reported none)
GetTransfers ==
    { [res |-> "CURLE_OK", http_code |-> 200, data |-> StateBody(sv), server |-> sv] :
         sv \in ServerStates }
    \cup { [res |-> "CURLE_OK", http_code |-> 200, data |-> ErrorBody, server |-> <<>>],
           [res |-> "CURLE_OK", http_code |-> 404, data |-> ErrorBody, server |-> <<>>],
           [res |-> "CURLE_COULDNT_CONNECT", http_code |-> 0, data |-> <<>>, server |-> <<>>],
           [res |-> "CURLE_OPERATION_TIMEDOUT", http_code |-> 0, data |-> <<>>,
            server |-> <<>>] }

PostTransfers ==
    { [res |-> "CURLE_OK", http_code |-> 200, data |-> <<"[", "]">>, server |-> <<>>],
      [res |-> "CURLE_OK", http_code |-> 500, data |-> ErrorBody, server |-> <<>>],
      [res |-> "CURLE_COULDNT_CONNECT", http_code |-> 0, data |-> <<>>, server |-> <<>>] }

NoTransfer == [res |-> "NONE", http_code |-> 0, data |-> <<>>, server |-> <<>>]

(***************************************************************************)
(* State                                                                   *)
(***************************************************************************)
VARIABLES
    file,              \* text of the configuration file
    g_config,          \* main.c: g_config, which s_cfg of config_server.c points to
    s_config_path,     \* config.c: reload path ("" when not set)
    s_current_config,  \* config.c
    s_config_loaded,   \* config.c
    ui,                \* light_ui.c: the registry
    ha,                \* ha_client.c: the client
    poll_timer,        \* main.c: whether the poll timer was created
    rpc,               \* render thread: where main() is
    poll_i,            \* render thread: i of the loop of ha_poll_all
    poll_count,        \* render thread: count of the running ha_poll_all
    s_running,         \* config_server.c
    wpc,               \* server thread: where handle_config_update is
    new_cfg,           \* server thread: new_cfg of handle_config_update
    reload_cfg,        \* server thread: new_cfg of config_reload
    put,               \* the last POST /api/config: [body, prev, rc]
    puts,              \* number of POST /api/config handled
    now,               \* lv_tick_get()
    act,               \* the last step: what ran, on which thread, what it issued
    s_sessions,        \* config_server.c: the session table
    wall,              \* time(NULL)
    issued,            \* number of tokens read from /dev/urandom
    ended,             \* <<token, cause>> of every session that has ended
    fails,             \* failed logins since the last successful one
    sreq,              \* the last session request: what it carried and got
    reply,             \* the last reply of ev_handler to a routed request
    s_session_lock,    \* config_server.c: 0 when free, else the thread that holds it
    workers            \* threads inside a session function: position and locals

vars == <<file, g_config, s_config_path, s_current_config, s_config_loaded, ui, ha,
          poll_timer, rpc, poll_i, poll_count, s_running, wpc, new_cfg, reload_cfg,
          put, puts, now, act, s_sessions, wall, issued, ended, fails, sreq, reply,
          s_session_lock, workers>>

config_vars == <<file, g_config, s_config_path, s_current_config, s_config_loaded>>
render_vars == <<rpc, poll_i, poll_count>>
web_vars == <<wpc, new_cfg, reload_cfg, put, puts>>
lock_vars == <<s_session_lock, workers>>
session_vars == <<s_sessions, wall, issued, ended, fails, sreq, reply, lock_vars>>

ConfigPath == "/etc/ha_lights.conf"

\* op: what ran; thread: where; i: the light index; xfer: how the read of a
\* poll step ended; read: the state the remote reported to the read of a
\* toggle (<<>> when it reported none); cb: the arguments the toggle callback
\* got; reqs: the requests issued; rc: the result
NoAct ==
    [op |-> "none", thread |-> "none", i |-> -1, xfer |-> NoTransfer, read |-> <<>>,
     cb |-> <<>>, reqs |-> <<>>, rc |-> 0]

\* body: the body posted; prev: *s_cfg when the request arrived; rc: what
\* handle_config_update returned (1 while it runs or when none was made)
NoPut == [body |-> [ha_url |-> Absent, ha_token |-> Absent, lights |-> <<>>],
          prev |-> EmptyConfig, rc |-> 1]

\* what a step records of a transfer: how it ended and what the remote said
Seen(xfer) == [xfer EXCEPT !.data = <<>>]

\* op: the request; val: the cookie value or password it carried; rc: what
\* session_validate / verify_password returned; status: the status of the
\* reply; cookie: the token the reply sets (<<>> when it sets none);
\* delay_ms: how long the handler slept before replying; after_fails: the
\* failed logins that preceded it; random_ok: whether /dev/urandom could be
\* read
NoReq ==
    [op |-> "none", val |-> <<>>, rc |-> 0, status |-> 0, cookie |-> <<>>,
     delay_ms |-> 0, after_fails |-> 0, random_ok |-> TRUE]

\* route: the branch of ev_handler that answered; authed: what is_authenticated
\* returned to it (-1 when it was not called); status: the status of the
\* reply (0 while handle_config_update is still running); location: the
\* Location header; body: which body was sent, by name
NoReply ==
    [route |-> "none", method |-> "", uri |-> "", val |-> <<>>, authed |-> -1,
     status |-> 0, location |-> "", body |-> ""]

\* two threads that can be inside session_create, session_validate or
\* session_destroy at the same time
Workers == {1, 2}

\* pc: where the thread is; op: the function it is in; token: its argument or
\* the token it generated; idx: oldest_idx of session_create; rc: what the
\* function is about to return
IdleWorker == [pc |-> "idle", op |-> "none", token |-> <<>>, idx |-> 0, rc |-> 0]

NoWorkers == [w \in Workers |-> IdleWorker]

(***************************************************************************)
(* main.c: startup up to the initial state fetch                           *)
(***************************************************************************)
Init ==
    \E a \in InitialAggregates, curl_ok \in BOOLEAN :
      \E ld \in {config_load(config_save(a))} :
        \E client \in {IF Len(ld.cfg.ha.base_url) > 0 /\ Len(ld.cfg.ha.token) > 0
                        THEN ha_client_init(ha_statics, ld.cfg.ha.base_url,
                                            ld.cfg.ha.token, curl_ok)
                        ELSE ha_statics} :
          LET cfg == ld.cfg
              ha_ok == Len(cfg.ha.base_url) > 0 /\ Len(cfg.ha.token) > 0 /\ curl_ok
              enters == ha_ok /\ ha_poll_all_enters(client, cfg.light_count)
          IN /\ ld.rc = 0
             /\ file = config_save(a)
             /\ g_config = cfg
             /\ s_config_path = ConfigPath
             /\ s_current_config = EmptyConfig
             /\ s_config_loaded = FALSE
             /\ ui = light_ui_set_toggle_cb(
                         light_ui_init(ui_statics, cfg.lights, cfg.light_count),
                         "on_light_toggle")
             /\ ha = client
             /\ poll_timer = ha_ok
             /\ rpc = IF enters THEN "boot_poll" ELSE "boot_server"
             /\ poll_i = 0
             /\ poll_count = IF enters THEN cfg.light_count ELSE 0
             /\ s_running = FALSE
             /\ wpc = "off"
             /\ new_cfg = EmptyConfig
             /\ reload_cfg = EmptyConfig
             /\ put = NoPut
             /\ puts = 0
             /\ now = 0
             /\ act = NoAct
             /\ s_sessions = NoSessions
             /\ wall = StartTime
             /\ issued = 0
             /\ ended = {}
             /\ fails = 0
             /\ sreq = NoReq
             /\ reply = NoReply
             /\ s_session_lock = 0
             /\ workers = NoWorkers

(***************************************************************************)
(* Render thread: main(), lv_timer_handler() and what it dispatches        *)
(***************************************************************************)
\* one iteration of the loop of ha_poll_all(g_config.lights, count), called by
\* main() at startup and by poll_timer_cb
PollStep ==
    /\ rpc \in {"boot_poll", "poll"}
    /\ \E xfer \in GetTransfers :
        LET id == LightAt(g_config, poll_i).entity_id
            next == ha_poll_next(poll_i, poll_count, xfer)
        IN /\ ui' = ha_poll_one(ui, poll_i, xfer, now)
           /\ poll_i' = IF next >= poll_count THEN 0 ELSE next
           /\ rpc' = IF next < poll_count THEN rpc
                     ELSE IF rpc = "boot_poll" THEN "boot_server" ELSE "loop"
           /\ poll_count' = IF next >= poll_count THEN 0 ELSE poll_count
           /\ act' = [op |-> "poll", thread |-> "render", i |-> poll_i, xfer |-> Seen(xfer),
                      read |-> <<>>, cb |-> <<>>,
                      reqs |-> << [method |-> "GET", url |-> states_url(ha, id),
                                   body |-> <<>>] >>,
                      rc |-> 0]
    /\ UNCHANGED <<session_vars, config_vars, ha, poll_timer, s_running, web_vars, now>>

\* config_server_start(WEB_SERVER_PORT, &g_config); a failure is not fatal
ConfigServerStart ==
    /\ rpc = "boot_server"
    /\ \E ok \in BOOLEAN :
        /\ s_running' = ok
        /\ wpc' = IF ok THEN "idle" ELSE "off"
        /\ act' = [NoAct EXCEPT !.op = "config_server_start", !.thread = "render",
                                !.rc = IF ok THEN 0 ELSE -1]
    /\ rpc' = "loop"
    /\ s_sessions' = NoSessions
    /\ UNCHANGED <<wall, issued, ended, fails, sreq, reply, lock_vars, config_vars, ui, ha, poll_timer,
                   poll_i, poll_count, new_cfg, reload_cfg, put, puts, now>>

\* poll_timer_cb, run by lv_timer_handler when the poll timer is due
PollTimer ==
    /\ rpc = "loop"
    /\ poll_timer
    /\ IF ha_poll_all_enters(ha, g_config.light_count)
       THEN /\ rpc' = "poll"
            /\ poll_i' = 0
            /\ poll_count' = g_config.light_count
       ELSE UNCHANGED render_vars
    /\ act' = [NoAct EXCEPT !.op = "poll_timer_cb", !.thread = "render"]
    /\ UNCHANGED <<session_vars, config_vars, ui, ha, poll_timer, s_running, web_vars, now>>

\* on_light_toggle(entity_id, current_state)
on_light_toggle(h, entity_id, current_state, get, post) ==
    ha_toggle_light(h, entity_id, get, post)

\* tile_click_cb for the tile of light index, run by lv_timer_handler
Tap(index) ==
    /\ rpc = "loop"
    /\ ui.light_screen
    /\ index < ui.light_count
    /\ \E t \in {tile_click_cb(ui, index)} :
        /\ ui' = t.ui
        /\ \E get \in GetTransfers, post \in PostTransfers :
             \E r \in {IF t.cb = <<>> THEN [rc |-> 0, reqs |-> <<>>]
                        ELSE on_light_toggle(ha, t.cb[1], t.cb[2], get, post)} :
                act' = [op |-> "tap", thread |-> "render", i |-> index,
                        xfer |-> NoTransfer,
                        read |-> IF r.reqs = <<>> THEN <<>> ELSE get.server,
                        cb |-> t.cb, reqs |-> r.reqs, rc |-> r.rc]
    /\ UNCHANGED <<session_vars, config_vars, ha, poll_timer, render_vars, s_running, web_vars, now>>

\* the directions lv_indev_get_gesture_dir reports
GestureDirs == {"LV_DIR_LEFT", "LV_DIR_RIGHT", "LV_DIR_TOP"}

\* gesture_event_cb, attached to light_screen, run by lv_timer_handler
Gesture(dir) ==
    /\ rpc = "loop"
    /\ ui.light_screen
    /\ ui' = gesture_event_cb(ui, dir)
    /\ act' = [NoAct EXCEPT !.op = "gesture_event_cb", !.thread = "render"]
    /\ UNCHANGED <<session_vars, config_vars, ha, poll_timer, render_vars, s_running, web_vars, now>>

\* light_ui_set_page(page), called from the render loop
SetPage(page) ==
    /\ rpc = "loop"
    /\ ui' = light_ui_set_page(ui, page)
    /\ act' = [NoAct EXCEPT !.op = "light_ui_set_page", !.thread = "render", !.i = page]
    /\ UNCHANGED <<session_vars, config_vars, ha, poll_timer, render_vars, s_running, web_vars, now>>

\* the millisecond clock behind lv_tick_get advances
Tick ==
    /\ now < MaxTick
    /\ now' = now + 1
    /\ act' = [NoAct EXCEPT !.op = "tick"]
    /\ UNCHANGED <<session_vars, config_vars, ui, ha, poll_timer, render_vars, s_running, web_vars>>

\* main() from config_load to the creation of the poll timer; curl_ok: whether
\* ha_client_init can set up its handle
Boot ==
    /\ rpc = "config_load"
    /\ \E curl_ok \in BOOLEAN :
        \E ld \in {config_load(file)} :
          LET cfg == ld.cfg
              set == Len(cfg.ha.base_url) > 0 /\ Len(cfg.ha.token) > 0
              ha_ok == set /\ curl_ok
              client == IF set THEN ha_client_init(ha, cfg.ha.base_url, cfg.ha.token, curl_ok)
                        ELSE ha
              enters == ha_ok /\ ha_poll_all_enters(client, cfg.light_count)
          IN /\ g_config' = cfg
             /\ IF main_fails(ld)
                THEN /\ rpc' = "exit"
                     /\ act' = [NoAct EXCEPT !.op = "main", !.thread = "render", !.rc = -1]
                     /\ UNCHANGED <<s_config_path, ui, ha, poll_timer, poll_count>>
                ELSE /\ s_config_path' = ConfigPath
                     /\ ui' = light_ui_set_toggle_cb(
                                  light_ui_init(ui, cfg.lights, cfg.light_count),
                                  "on_light_toggle")
                     /\ ha' = client
                     /\ poll_timer' = ha_ok
                     /\ rpc' = IF enters THEN "boot_poll" ELSE "boot_server"
                     /\ poll_count' = IF enters THEN cfg.light_count ELSE 0
                     /\ act' = [NoAct EXCEPT !.op = "main", !.thread = "render"]
    /\ UNCHANGED <<session_vars, file, s_current_config, s_config_loaded, poll_i, s_running,
                   web_vars, now>>

\* signal_handler has set g_shutdown: the loop of main() ends at its test
Shutdown ==
    /\ rpc = "loop"
    /\ rpc' = "config_server_stop"
    /\ act' = [NoAct EXCEPT !.op = "g_shutdown", !.thread = "render"]
    /\ UNCHANGED <<session_vars, config_vars, ui, ha, poll_timer, poll_i, poll_count,
                   s_running, web_vars, now>>

\* config_server_stop() up to pthread_join; it returns at once when the
\* server was never started
ConfigServerStop ==
    /\ rpc = "config_server_stop"
    /\ rpc' = IF s_running THEN "pthread_join" ELSE "ha_client_cleanup"
    /\ s_running' = FALSE
    /\ act' = [NoAct EXCEPT !.op = "config_server_stop", !.thread = "render"]
    /\ UNCHANGED <<session_vars, config_vars, ui, ha, poll_timer, poll_i, poll_count,
                   web_vars, now>>

\* config_server_stop(): pthread_join returns, then mg_mgr_free(&s_mgr)
ConfigServerJoin ==
    /\ rpc = "pthread_join"
    /\ pthread_join(wpc)
    /\ rpc' = "ha_client_cleanup"
    /\ act' = [NoAct EXCEPT !.op = "mg_mgr_free", !.thread = "render"]
    /\ UNCHANGED <<session_vars, config_vars, ui, ha, poll_timer, poll_i, poll_count,
                   s_running, web_vars, now>>

\* main(): ha_client_cleanup()
HaClientCleanup ==
    /\ rpc = "ha_client_cleanup"
    /\ ha' = ha_client_cleanup(ha)
    /\ rpc' = "light_ui_destroy"
    /\ act' = [NoAct EXCEPT !.op = "ha_client_cleanup", !.thread = "render"]
    /\ UNCHANGED <<session_vars, config_vars, ui, poll_timer, poll_i, poll_count,
                   s_running, web_vars, now>>

\* main(): light_ui_destroy(), then the drivers and lv_deinit(), and it returns
LightUiDestroy ==
    /\ rpc = "light_ui_destroy"
    /\ ui' = light_ui_destroy(ui)
    /\ rpc' = "exit"
    /\ act' = [NoAct EXCEPT !.op = "light_ui_destroy", !.thread = "render"]
    /\ UNCHANGED <<session_vars, config_vars, ha, poll_timer, poll_i, poll_count,
                   s_running, web_vars, now>>

(***************************************************************************)
(* Server thread: ev_handler for POST /api/config with a valid session     *)
(***************************************************************************)
\* handle_config_update up to config_save; fopen of the file may fail
handle_config_update_save(body) ==
    /\ wpc = "idle"
    /\ puts' = puts + 1
    /\ new_cfg' = handle_config_update_parse(body, g_config)
    /\ \E saved \in BOOLEAN :
        /\ file' = IF saved THEN config_save(new_cfg') ELSE file
        /\ wpc' = IF saved THEN "config_reload" ELSE "idle"
        /\ put' = [body |-> body, prev |-> g_config, rc |-> IF saved THEN 1 ELSE -1]
        /\ act' = [NoAct EXCEPT !.op = "config_save", !.thread = "server",
                                !.rc = IF saved THEN 0 ELSE -1]
    /\ reload_cfg' = EmptyConfig
    /\ UNCHANGED <<g_config, s_config_path, s_current_config, s_config_loaded, ui, ha,
                   poll_timer, render_vars, s_running, now>>

\* POST /api/config of a request whose session is valid
PutConfig(body) ==
    /\ puts < MaxPuts
    /\ handle_config_update_save(body)
    /\ UNCHANGED session_vars

\* faulty variant: the registry is destroyed before the file is loaded
ReloadLoadDestroysFirst ==
    /\ wpc = "config_reload"
    /\ \E ld \in {config_load(file)} :
       LET failed == s_config_path = "" \/ ld.rc # 0
       IN /\ reload_cfg' = IF failed THEN EmptyConfig ELSE ld.cfg
          /\ wpc' = IF failed THEN "idle" ELSE "light_ui_init"
          /\ put' = IF failed THEN [put EXCEPT !.rc = -1] ELSE put
          /\ act' = [NoAct EXCEPT !.op = "config_load", !.thread = "server",
                                  !.rc = IF failed THEN -1 ELSE 0]
    /\ ui' = light_ui_destroy(ui)
    /\ UNCHANGED <<session_vars, config_vars, ha, poll_timer, render_vars, s_running, new_cfg,
                   puts, now>>

\* config_reload up to config_load; a failure ends the request
ReloadLoad ==
    /\ wpc = "config_reload"
    /\ \E ld \in {config_load(file)} :
       LET failed == s_config_path = "" \/ ld.rc # 0
       IN /\ reload_cfg' = IF failed THEN EmptyConfig ELSE ld.cfg
          /\ wpc' = IF failed THEN "idle" ELSE "light_ui_destroy"
          /\ put' = IF failed THEN [put EXCEPT !.rc = -1] ELSE put
          /\ act' = [NoAct EXCEPT !.op = "config_load", !.thread = "server",
                                  !.rc = IF failed THEN -1 ELSE 0]
    /\ UNCHANGED <<session_vars, config_vars, ui, ha, poll_timer, render_vars, s_running, new_cfg,
                   puts, now>>

\* config_reload: light_ui_destroy()
ReloadDestroy ==
    /\ wpc = "light_ui_destroy"
    /\ ui' = light_ui_destroy(ui)
    /\ wpc' = "light_ui_init"
    /\ act' = [NoAct EXCEPT !.op = "light_ui_destroy", !.thread = "server"]
    /\ UNCHANGED <<session_vars, config_vars, ha, poll_timer, render_vars, s_running, new_cfg,
                   reload_cfg, put, puts, now>>

\* config_reload: light_ui_init(new_cfg.lights, new_cfg.light_count)
ReloadInit ==
    /\ wpc = "light_ui_init"
    /\ ui' = light_ui_init(ui, reload_cfg.lights, reload_cfg.light_count)
    /\ wpc' = "store"
    /\ act' = [NoAct EXCEPT !.op = "light_ui_init", !.thread = "server"]
    /\ UNCHANGED <<session_vars, config_vars, ha, poll_timer, render_vars, s_running, new_cfg,
                   reload_cfg, put, puts, now>>

\* config_reload: s_current_config = new_cfg; s_config_loaded = 1
ReloadStore ==
    /\ wpc = "store"
    /\ s_current_config' = reload_cfg
    /\ s_config_loaded' = TRUE
    /\ wpc' = "copy"
    /\ act' = [NoAct EXCEPT !.op = "store", !.thread = "server"]
    /\ UNCHANGED <<session_vars, file, g_config, s_config_path, ui, ha, poll_timer, render_vars,
                   s_running, new_cfg, reload_cfg, put, puts, now>>

\* handle_config_update after config_reload: *s_cfg = *config_get_current()
UpdateConfig ==
    /\ wpc = "copy"
    /\ g_config' = IF s_config_loaded THEN s_current_config ELSE g_config
    /\ wpc' = "idle"
    /\ put' = [put EXCEPT !.rc = 0]
    /\ reload_cfg' = EmptyConfig
    /\ act' = [NoAct EXCEPT !.op = "copy", !.thread = "server"]
    /\ UNCHANGED <<session_vars, file, s_config_path, s_current_config, s_config_loaded, ui, ha,
                   poll_timer, render_vars, s_running, new_cfg, puts, now>>

\* server_thread: mg_mgr_poll has returned, s_running is 0, the thread returns
ServerThreadExit ==
    /\ wpc = "idle"
    /\ ~s_running
    /\ wpc' = "off"
    /\ act' = [NoAct EXCEPT !.op = "server_thread", !.thread = "server"]
    /\ UNCHANGED <<session_vars, config_vars, ui, ha, poll_timer, render_vars, s_running,
                   new_cfg, reload_cfg, put, puts, now>>

(***************************************************************************)
(* Server thread: ev_handler for the session routes                        *)
(***************************************************************************)
\* the 32 bytes the k-th read of /dev/urandom returns; no two reads return
\* the same bytes
urandom(k) == [i \in 1..SESSION_TOKEN_BYTES |-> (k * 29 + i * 7) % 256]

\* the token made from the k-th read of /dev/urandom
Tokens == [k \in 1..(MaxLogins + 1) |-> hex_string(urandom(k))]

Passwords == { <<"p">>, <<"q">> }

\* the cookie values requests carry: none, an unknown one, the first tokens
\* issued, and one too long for the buffer of get_session_cookie
CookieValues ==
    { <<>>, <<"x">> }
    \cup { hex_string(urandom(k)) : k \in 1..Min(issued, MaxTried) }
    \cup { hex_string(urandom(1)) \o <<"0">> }

\* the steps the wall clock has made since the start
Advances(t) == ((t - StartTime) % SESSION_TIMEOUT_SEC) + ((t - StartTime) \div SESSION_TIMEOUT_SEC)

\* the sessions of S that T no longer holds, each with the cause
Ended(S, T, cause) ==
    { <<S[k].token, cause>> : k \in { j \in 1..MAX_SESSIONS :
                                        /\ S[j].last_active # 0
                                        /\ \/ T[j].last_active = 0
                                           \/ T[j].token # S[j].token } }

\* POST /login with a password; ok: whether /dev/urandom can be read
Login(password, ok) ==
    /\ wpc = "idle"
    /\ IF verify_password(password, g_config.web_password_hash) = 1
       THEN /\ issued < MaxLogins
            /\ \E g \in {generate_session_token(urandom(issued + 1), SESSION_TOKEN_HEX + 1, ok)} :
                 IF g.rc = 0
                 THEN /\ s_sessions' = session_create(s_sessions, g.buf, wall)
                      /\ issued' = issued + 1
                      /\ ended' = ended \cup Ended(s_sessions, s_sessions', "evicted")
                      /\ fails' = 0
                      /\ sreq' = [op |-> "login", val |-> password, rc |-> 1, status |-> 302,
                                  cookie |-> g.buf, delay_ms |-> 0, after_fails |-> fails,
                                  random_ok |-> ok]
                 ELSE /\ sreq' = [op |-> "login", val |-> password, rc |-> 1, status |-> 200,
                                  cookie |-> <<>>, delay_ms |-> 0, after_fails |-> fails,
                                  random_ok |-> ok]
                      /\ UNCHANGED <<s_sessions, issued, ended, fails>>
            /\ wall' = wall
       ELSE /\ Advances(wall) < MaxAdvances
            /\ wall' = wall + (LOGIN_FAIL_DELAY_MS \div 1000)
            /\ fails' = fails + 1
            /\ sreq' = [op |-> "login", val |-> password, rc |-> 0, status |-> 200,
                        cookie |-> <<>>, delay_ms |-> LOGIN_FAIL_DELAY_MS,
                        after_fails |-> fails, random_ok |-> TRUE]
            /\ UNCHANGED <<s_sessions, issued, ended>>
    /\ act' = [NoAct EXCEPT !.op = "login", !.thread = "server"]
    /\ UNCHANGED <<reply, lock_vars, config_vars, ui, ha, poll_timer, render_vars, s_running, web_vars, now>>

\* is_authenticated(hm) for a request with the cookie value val
Authenticate(val) ==
    /\ wpc = "idle"
    /\ \E v \in {is_authenticated(s_sessions, val, wall)} :
        /\ s_sessions' = v.sessions
        /\ ended' = ended \cup Ended(s_sessions, v.sessions, "expired")
        /\ sreq' = [NoReq EXCEPT !.op = "session_validate",
                                 !.val = get_session_cookie(val, SESSION_TOKEN_HEX + 1),
                                 !.rc = v.rc,
                                 !.status = IF v.rc = 1 THEN 200 ELSE 302]
    /\ act' = [NoAct EXCEPT !.op = "session_validate", !.thread = "server"]
    /\ UNCHANGED <<wall, issued, fails, reply, lock_vars, config_vars, ui, ha, poll_timer, render_vars,
                   s_running, web_vars, now>>

\* POST /logout with the cookie value val
Logout(val) ==
    /\ wpc = "idle"
    /\ \E token \in {get_session_cookie(val, SESSION_TOKEN_HEX + 1)} :
        /\ s_sessions' = session_destroy(s_sessions, token)
        /\ ended' = ended \cup Ended(s_sessions, s_sessions', "logout")
        /\ sreq' = [NoReq EXCEPT !.op = "logout", !.val = token, !.status = 200]
    /\ act' = [NoAct EXCEPT !.op = "logout", !.thread = "server"]
    /\ UNCHANGED <<wall, issued, fails, reply, lock_vars, config_vars, ui, ha, poll_timer, render_vars,
                   s_running, web_vars, now>>

\* time(NULL) moves on by a second or by the session timeout
Advance(dt) ==
    /\ Advances(wall) < MaxAdvances
    /\ wall' = wall + dt
    /\ act' = [NoAct EXCEPT !.op = "time"]
    /\ UNCHANGED <<s_sessions, issued, ended, fails, sreq, reply, lock_vars, config_vars, ui, ha,
                   poll_timer, render_vars, s_running, web_vars, now>>

(***************************************************************************)
(* Server threads inside the session functions, statement by statement     *)
(***************************************************************************)
\* thread w enters session_create (with the token it has generated),
\* session_validate or session_destroy (with the token val); the last two
\* return at once for an empty token
SessionCall(w, op, val) ==
    /\ s_running
    /\ workers[w].pc = "idle"
    /\ IF op = "session_create"
       THEN /\ issued < LockLogins
            /\ issued' = issued + 1
            /\ workers' = [workers EXCEPT ![w] =
                   [pc |-> "lock", op |-> op, idx |-> 0, rc |-> 0,
                    token |-> generate_session_token(urandom(issued + 1),
                                                     SESSION_TOKEN_HEX + 1, TRUE).buf]]
       ELSE /\ issued' = issued
            /\ workers' = [workers EXCEPT ![w] =
                   IF val = <<>> THEN IdleWorker
                   ELSE [pc |-> "lock", op |-> op, idx |-> 0, rc |-> 0, token |-> val]]
    /\ act' = [NoAct EXCEPT !.op = op, !.thread = "server"]
    /\ UNCHANGED <<s_sessions, wall, ended, fails, sreq, reply, s_session_lock, config_vars,
                   ui, ha, poll_timer, render_vars, s_running, web_vars, now>>

\* pthread_mutex_lock(&s_session_lock) returns in thread w
SessionLock(w) ==
    /\ workers[w].pc = "lock"
    /\ pthread_mutex_lock(s_session_lock)
    /\ s_session_lock' = w
    /\ workers' = [workers EXCEPT ![w].pc = "scan"]
    /\ act' = [NoAct EXCEPT !.op = "pthread_mutex_lock", !.thread = "server"]
    /\ UNCHANGED <<s_sessions, wall, issued, ended, fails, sreq, reply, config_vars, ui, ha,
                   poll_timer, render_vars, s_running, web_vars, now>>

\* the loop of the function thread w is in: session_create picks its slot,
\* session_validate and session_destroy run to their return value
SessionScan(w) ==
    /\ workers[w].pc = "scan"
    /\ IF workers[w].op = "session_create"
       THEN /\ workers' = [workers EXCEPT
                   ![w].idx = session_create_scan(s_sessions, 0, 0, s_sessions[1].last_active),
                   ![w].pc = "write_token"]
            /\ UNCHANGED <<s_sessions, ended>>
       ELSE IF workers[w].op = "session_validate"
       THEN \E v \in {session_validate_scan(s_sessions, workers[w].token, wall, 0)} :
              /\ s_sessions' = v.sessions
              /\ ended' = ended \cup Ended(s_sessions, v.sessions, "expired")
              /\ workers' = [workers EXCEPT ![w].rc = v.rc, ![w].pc = "unlock"]
       ELSE /\ s_sessions' = session_destroy_scan(s_sessions, workers[w].token, 0)
            /\ ended' = ended \cup Ended(s_sessions, s_sessions', "logout")
            /\ workers' = [workers EXCEPT ![w].pc = "unlock"]
    /\ act' = [NoAct EXCEPT !.op = "scan", !.thread = "server"]
    /\ UNCHANGED <<wall, issued, fails, sreq, reply, s_session_lock, config_vars, ui, ha,
                   poll_timer, render_vars, s_running, web_vars, now>>

\* session_create in thread w: snprintf(s_sessions[oldest_idx].token, ...)
SessionWriteToken(w) ==
    /\ workers[w].pc = "write_token"
    /\ s_sessions' = [s_sessions EXCEPT ![workers[w].idx + 1].token =
                         snprintf_s(workers[w].token, SESSION_TOKEN_HEX + 1)]
    /\ ended' = ended \cup Ended(s_sessions, s_sessions', "evicted")
    /\ workers' = [workers EXCEPT ![w].pc = "write_time"]
    /\ act' = [NoAct EXCEPT !.op = "write_token", !.thread = "server"]
    /\ UNCHANGED <<wall, issued, fails, sreq, reply, s_session_lock, config_vars, ui, ha,
                   poll_timer, render_vars, s_running, web_vars, now>>

\* session_create in thread w: s_sessions[oldest_idx].last_active = time(NULL)
SessionWriteTime(w) ==
    /\ workers[w].pc = "write_time"
    /\ s_sessions' = [s_sessions EXCEPT ![workers[w].idx + 1].last_active = wall]
    /\ workers' = [workers EXCEPT ![w].pc = "unlock"]
    /\ act' = [NoAct EXCEPT !.op = "write_time", !.thread = "server"]
    /\ UNCHANGED <<wall, issued, ended, fails, sreq, reply, s_session_lock, config_vars, ui,
                   ha, poll_timer, render_vars, s_running, web_vars, now>>

\* pthread_mutex_unlock(&s_session_lock) and the return, in thread w
SessionUnlock(w) ==
    /\ workers[w].pc = "unlock"
    /\ s_session_lock' = 0
    /\ workers' = [workers EXCEPT ![w] = IdleWorker]
    /\ act' = [NoAct EXCEPT !.op = "pthread_mutex_unlock", !.thread = "server",
                            !.rc = workers[w].rc]
    /\ UNCHANGED <<s_sessions, wall, issued, ended, fails, sreq, reply, config_vars, ui, ha,
                   poll_timer, render_vars, s_running, web_vars, now>>

\* a step of thread w inside a session function
SessionStep(w) ==
    \/ SessionLock(w)
    \/ SessionScan(w)
    \/ SessionWriteToken(w)
    \/ SessionWriteTime(w)
    \/ SessionUnlock(w)

Methods == {"GET", "POST"}

Uris == {"/", "/login", "/logout", "/settings", "/api/config", "/x"}

\* ev_handler for a request other than POST /login, with the cookie value val;
\* for POST /api/config with a valid session this is handle_config_update up
\* to config_save, and the reply follows when config_reload has ended
Request(method, uri, val) ==
    /\ wpc = "idle"
    /\ \E route \in {ev_handler_route(method, uri)} :
        /\ route # "login"
        /\ IF route = "logout"
           THEN \E token \in {get_session_cookie(val, SESSION_TOKEN_HEX + 1)} :
                  /\ s_sessions' = session_destroy(s_sessions, token)
                  /\ ended' = ended \cup Ended(s_sessions, s_sessions', "logout")
                  /\ reply' = [route |-> route, method |-> method, uri |-> uri, val |-> val,
                               authed |-> -1,
                               status |-> ev_handler_reply(route, -1).status,
                               location |-> ev_handler_reply(route, -1).location,
                               body |-> ev_handler_reply(route, -1).body]
                  /\ act' = [NoAct EXCEPT !.op = "request", !.thread = "server"]
                  /\ UNCHANGED <<config_vars, web_vars>>
           ELSE \E v \in {is_authenticated(s_sessions, val, wall)} :
                  /\ s_sessions' = v.sessions
                  /\ ended' = ended \cup Ended(s_sessions, v.sessions, "expired")
                  /\ IF route = "config_update" /\ v.rc = 1
                     THEN /\ puts < MaxPuts
                          /\ \E body \in Bodies : handle_config_update_save(body)
                          /\ reply' = [route |-> route, method |-> method, uri |-> uri,
                                       val |-> val, authed |-> v.rc, status |-> 0,
                                       location |-> "", body |-> ""]
                     ELSE /\ reply' = [route |-> route, method |-> method, uri |-> uri,
                                       val |-> val, authed |-> v.rc,
                                       status |-> ev_handler_reply(route, v.rc).status,
                                       location |-> ev_handler_reply(route, v.rc).location,
                                       body |-> ev_handler_reply(route, v.rc).body]
                          /\ act' = [NoAct EXCEPT !.op = "request", !.thread = "server"]
                          /\ UNCHANGED <<config_vars, web_vars>>
    /\ UNCHANGED <<wall, issued, fails, sreq, lock_vars, ui, ha, poll_timer, render_vars,
                   s_running, now>>

\* faulty variant: a start leaves the session table as it finds it
config_server_start_keeps_sessions(running, S, listen_ok, create_ok) ==
    IF running THEN [rc |-> -1, running |-> running, sessions |-> S, thread |-> FALSE]
    ELSE IF ~listen_ok THEN [rc |-> -1, running |-> FALSE, sessions |-> S, thread |-> FALSE]
    ELSE IF ~create_ok THEN [rc |-> -1, running |-> FALSE, sessions |-> S, thread |-> FALSE]
    ELSE [rc |-> 0, running |-> TRUE, sessions |-> S, thread |-> TRUE]

\* config_server_start: what it returns, s_running and s_sessions after it, and
\* whether server_thread was created; listen_ok: whether mg_http_listen gives a
\* connection; create_ok: whether pthread_create succeeds
config_server_start(running, S, listen_ok, create_ok) ==
    IF running THEN [rc |-> -1, running |-> running, sessions |-> S, thread |-> FALSE]
    ELSE IF ~listen_ok THEN [rc |-> -1, running |-> FALSE, sessions |-> S, thread |-> FALSE]
    ELSE IF ~create_ok
         THEN [rc |-> -1, running |-> FALSE, sessions |-> NoSessions, thread |-> FALSE]
    ELSE [rc |-> 0, running |-> TRUE, sessions |-> NoSessions, thread |-> TRUE]

\* a call of config_server_start from the thread of main() while it runs its loop
CallStart ==
    /\ rpc = "loop"
    /\ \E listen_ok \in BOOLEAN, create_ok \in BOOLEAN :
        \E r \in {config_server_start(s_running, s_sessions, listen_ok, create_ok)} :
          /\ s_running' = r.running
          /\ s_sessions' = r.sessions
          /\ ended' = ended \cup Ended(s_sessions, r.sessions, "restart")
          /\ wpc' = IF r.thread THEN "idle" ELSE wpc
          /\ act' = [NoAct EXCEPT !.op = "config_server_start", !.thread = "render",
                                  !.rc = r.rc]
    /\ UNCHANGED <<wall, issued, fails, sreq, reply, lock_vars, config_vars, ui, ha, poll_timer,
                   render_vars, new_cfg, reload_cfg, put, puts, now>>

\* a call of config_server_stop from that thread, up to pthread_join; it
\* returns at once when the server is not running
CallStop ==
    /\ rpc = "loop"
    /\ rpc' = IF s_running THEN "pthread_join" ELSE "loop"
    /\ s_running' = FALSE
    /\ act' = [NoAct EXCEPT !.op = "config_server_stop", !.thread = "render"]
    /\ UNCHANGED <<session_vars, config_vars, ui, ha, poll_timer, poll_i, poll_count,
                   web_vars, now>>

\* that call returns: pthread_join has returned and mg_mgr_free has run
StopReturns ==
    /\ rpc = "pthread_join"
    /\ pthread_join(wpc)
    /\ rpc' = "loop"
    /\ act' = [NoAct EXCEPT !.op = "mg_mgr_free", !.thread = "render"]
    /\ UNCHANGED <<session_vars, config_vars, ui, ha, poll_timer, poll_i, poll_count,
                   s_running, web_vars, now>>

\* both threads; the clock stands still
Next ==
    \/ PollStep
    \/ ConfigServerStart
    \/ PollTimer
    \/ \E index \in 0..(LIGHT_MAX_COUNT - 1) : Tap(index)
    \/ \E body \in Bodies : PutConfig(body)
    \/ ReloadLoad
    \/ ReloadDestroy
    \/ ReloadInit
    \/ ReloadStore
    \/ UpdateConfig

Spec == Init /\ [][Next]_vars

\* the render thread with the clock running; no request reaches the server
NextClock ==
    \/ PollStep
    \/ ConfigServerStart
    \/ PollTimer
    \/ \E index \in 0..(LIGHT_MAX_COUNT - 1) : Tap(index)
    \/ Tick

SpecClock == Init /\ [][NextClock]_vars

\* the render thread with the clock running, when no toggle command of a tap
\* succeeds: ha_toggle_light returns -1 every time
NextRefused ==
    \/ PollStep
    \/ ConfigServerStart
    \/ PollTimer
    \/ \E index \in 0..(LIGHT_MAX_COUNT - 1) : Tap(index) /\ act'.rc = -1
    \/ Tick

SpecRefused == Init /\ [][NextRefused]_vars

\* what may be found at the configuration path when somebody else has
\* written there: no file, a file that is not JSON, a file with an invalid light
ForeignFiles ==
    { <<>>, <<"{">>,
      config_save([ha |-> [base_url |-> <<"h">>, token |-> <<"t">>],
                   web_password_hash |-> <<"$">>,
                   lights |-> <<LightBad>>,
                   light_count |-> 1]) }

\* the file at the configuration path is replaced from outside the program
\* while a request is between config_save and config_reload
FileReplaced ==
    /\ wpc = "config_reload"
    /\ act.op = "config_save"
    /\ file' \in ForeignFiles
    /\ act' = [NoAct EXCEPT !.op = "file_replaced"]
    /\ UNCHANGED <<session_vars, g_config, s_config_path, s_current_config, s_config_loaded,
                   ui, ha, poll_timer, render_vars, s_running, web_vars, now>>

\* both threads, the file being written from outside as well
NextReload ==
    \/ PollStep
    \/ ConfigServerStart
    \/ PollTimer
    \/ \E index \in 0..(LIGHT_MAX_COUNT - 1) : Tap(index)
    \/ \E body \in Bodies : PutConfig(body)
    \/ FileReplaced
    \/ ReloadLoad
    \/ ReloadDestroy
    \/ ReloadInit
    \/ ReloadStore
    \/ UpdateConfig

SpecReload == Init /\ [][NextReload]_vars

\* request bodies whose values fit the aggregate, and bodies with an icon or a
\* label one character longer than the aggregate can hold
WholeBodies ==
    { [ha_url |-> <<"g">>, ha_token |-> <<"u">>, lights |-> <<LightB, LightA>>],
      [ha_url |-> <<"g">>, ha_token |-> <<"u">>,
       lights |-> << [LightA EXCEPT !.icon = [k \in 1..ICON_SIZE |-> "i"]] >>],
      [ha_url |-> <<"g">>, ha_token |-> <<"u">>,
       lights |-> << LightB, [LightA EXCEPT !.label = [k \in 1..LABEL_SIZE |-> "L"]] >>] }

\* both threads, the requests carrying these bodies
NextWhole ==
    \/ PollStep
    \/ ConfigServerStart
    \/ PollTimer
    \/ \E body \in WholeBodies : PutConfig(body)
    \/ ReloadLoad
    \/ ReloadDestroy
    \/ ReloadInit
    \/ ReloadStore
    \/ UpdateConfig

SpecWhole == Init /\ [][NextWhole]_vars

\* the thread of main() starting and stopping the server in any order while
\* the server thread serves logins and the requests and logouts of the first
\* sessions
NextLifecycle ==
    \/ PollStep
    \/ ConfigServerStart
    \/ CallStart
    \/ CallStop
    \/ StopReturns
    \/ ServerThreadExit
    \/ issued < SomeLogins /\ Login(<<"p">>, TRUE)
    \/ \E k \in 1..Min(issued, MaxTried) : Authenticate(Tokens[k])
    \/ \E k \in 1..Min(issued, MaxTried) : Logout(Tokens[k])

SpecLifecycle == Init /\ [][NextLifecycle]_vars

\* the key of the password hash in the configuration file
HashKey == <<"w", "e", "b", "_", "p", "a", "s", "s", "w", "o", "r", "d", "_", "h", "a", "s", "h">>

\* request bodies: a plain one, and one whose ha_url holds the text of a
\* web_password_hash member (a member of that name in the body itself is
\* never read by handle_config_update)
HashBodies ==
    { [ha_url |-> <<"g">>, ha_token |-> <<"u">>, lights |-> <<LightB>>],
      [ha_url |-> <<"a", "\"">> \o HashKey \o <<"\"", ":", "\"", "x">>,
       ha_token |-> <<"u">>, lights |-> <<LightB>>] }

\* the server thread receiving these bodies
NextHash ==
    \/ PollStep
    \/ ConfigServerStart
    \/ \E body \in HashBodies : PutConfig(body)
    \/ ReloadLoad
    \/ ReloadDestroy
    \/ ReloadInit
    \/ ReloadStore
    \/ UpdateConfig

SpecHash == Init /\ [][NextHash]_vars

\* the server thread serving logins, the logout of the first session and the
\* requests of the second one while the clock moves by the session timeout
NextSlots ==
    \/ ConfigServerStart
    \/ Login(<<"p">>, TRUE)
    \/ Authenticate(Tokens[2])
    \/ Logout(Tokens[1])
    \/ Advances(wall) < FewAdvances /\ Advance(SESSION_TIMEOUT_SEC)

SpecSlots == Init /\ [][NextSlots]_vars

\* the render thread polling, with no tap
NextPoll ==
    \/ PollStep
    \/ ConfigServerStart
    \/ PollTimer

SpecPoll == Init /\ [][NextPoll]_vars

\* the same, main() going on: every transfer ends (libcurl is given a
\* timeout), config_server_start returns, and lv_timer_handler, called once
\* per frame, runs poll_timer_cb when the timer is due
SpecPollFair ==
    /\ SpecPoll
    /\ WF_vars(PollStep)
    /\ WF_vars(ConfigServerStart)
    /\ WF_vars(PollTimer)

\* request bodies with as many lights as the aggregate can hold, and one more
ManyLights(n) ==
    [k \in 1..n |-> [entity_id |-> <<"s", ".", "b">>, label |-> <<"B">>, icon |-> <<"i">>]]

ManyBodies ==
    { [ha_url |-> <<"h">>, ha_token |-> <<"t">>, lights |-> ManyLights(n)] :
        n \in {CONFIG_MAX_LIGHTS, CONFIG_MAX_LIGHTS + 1} }

\* the server thread receiving these bodies while the render loop, after
\* the initial state fetch, dispatches nothing
NextMany ==
    \/ PollStep
    \/ ConfigServerStart
    \/ \E body \in ManyBodies : PutConfig(body)
    \/ ReloadLoad
    \/ ReloadDestroy
    \/ ReloadInit
    \/ ReloadStore
    \/ UpdateConfig

SpecMany == Init /\ [][NextMany]_vars

\* request bodies with no light, with lights for two pages and with lights for
\* every page
PageBodies ==
    { [ha_url |-> <<"h">>, ha_token |-> <<"t">>, lights |-> ManyLights(n)] :
        n \in {0, LIGHT_PER_PAGE + 1, LIGHT_MAX_COUNT} }

\* the pages light_ui_set_page is asked for
Pages == -1 .. MAX_PAGES

\* the render loop dispatching gestures and page changes while the server
\* thread reloads the registry with these bodies
NextPages ==
    \/ PollStep
    \/ ConfigServerStart
    \/ \E dir \in GestureDirs : Gesture(dir)
    \/ \E page \in Pages : SetPage(page)
    \/ \E body \in PageBodies : PutConfig(body)
    \/ ReloadLoad
    \/ ReloadDestroy
    \/ ReloadInit
    \/ ReloadStore
    \/ UpdateConfig

SpecPages == Init /\ [][NextPages]_vars

\* the server thread serving the session routes for a few logins; the render
\* loop dispatches nothing and no configuration is posted; between requests the
\* clock moves by the session timeout, and by a second in every failed login
NextSessions ==
    \/ ConfigServerStart
    \/ \E password \in Passwords, ok \in BOOLEAN : issued < FewLogins /\ Login(password, ok)
    \/ \E val \in CookieValues : Authenticate(val)
    \/ \E val \in CookieValues : Logout(val)
    \/ Advance(SESSION_TIMEOUT_SEC)

SpecSessions == Init /\ [][NextSessions]_vars

\* the server thread with sessions expiring: logins, requests with a cookie,
\* and the clock
NextExpiry ==
    \/ ConfigServerStart
    \/ issued < SomeLogins /\ Login(<<"p">>, TRUE)
    \/ \E val \in CookieValues : Authenticate(val)
    \/ \E dt \in {1, SESSION_TIMEOUT_SEC} : Advance(dt)

SpecExpiry == Init /\ [][NextExpiry]_vars

\* the server thread filling the session table: logins, requests of the
\* first sessions, and the clock moving by a second
NextFull ==
    \/ ConfigServerStart
    \/ Login(<<"p">>, TRUE)
    \/ \E k \in 1..Min(issued, MaxTried) : Authenticate(hex_string(urandom(k)))
    \/ Advances(wall) < FewAdvances /\ Advance(1)

SpecFull == Init /\ [][NextFull]_vars

\* bodies with valid lights: plain text, and a label that is the name of a key
TwiceBodies ==
    { [ha_url |-> <<"h">>, ha_token |-> <<"t">>, lights |-> <<LightB>>],
      [ha_url |-> <<"h">>, ha_token |-> <<"t">>, lights |-> <<LightB, LightA>>],
      [ha_url |-> <<"h">>, ha_token |-> <<"t">>,
       lights |-> << [LightB EXCEPT !.label = <<"i", "c", "o", "n">>] >>] }

\* both threads, with a POST /api/config followed by a second one with the same
\* body
NextTwice ==
    \/ PollStep
    \/ ConfigServerStart
    \/ PollTimer
    \/ \E body \in TwiceBodies :
          /\ puts < TwicePuts
          /\ puts > 0 => body = put.body
          /\ handle_config_update_save(body)
          /\ UNCHANGED session_vars
    \/ ReloadLoad
    \/ ReloadDestroy
    \/ ReloadInit
    \/ ReloadStore
    \/ UpdateConfig

SpecTwice == Init /\ [][NextTwice]_vars

\* the aggregates that are saved and loaded back; their field values are plain
\* text, a double quote, a backslash, and the name of a key of the file
RoundTripAggregates ==
    LET urls == { <<>>, <<"h">>, <<"h", "a", "_", "t", "o", "k", "e", "n">> }
        tokens == { <<"t">>, <<"t", "\\", "n">> }
        labels == { <<"A">>, <<"A", "\"", "B">>, <<"\\">>, <<"i", "c", "o", "n">> }
        lights == { [entity_id |-> id, label |-> lbl, icon |-> <<"i">>] :
                      id \in { <<"l", ".", "a">>, <<"s", ".", "b">> }, lbl \in labels }
    IN { [ha |-> [base_url |-> url, token |-> tok],
          web_password_hash |-> <<"$">>,
          lights |-> ls,
          light_count |-> Len(ls)] :
           url \in urls, tok \in tokens,
           ls \in UNION { [1..n -> lights] : n \in 0..MaxSaved } }

\* a process that has an aggregate in memory and no file yet
InitRoundTrip ==
    \E a \in RoundTripAggregates :
        /\ new_cfg = a
        /\ file = <<>>
        /\ wpc = "save"
        /\ g_config = EmptyConfig
        /\ s_config_path = ConfigPath
        /\ s_current_config = EmptyConfig
        /\ s_config_loaded = FALSE
        /\ ui = ui_statics
        /\ ha = ha_statics
        /\ poll_timer = FALSE
        /\ rpc = "loop"
        /\ poll_i = 0
        /\ poll_count = 0
        /\ s_running = FALSE
        /\ reload_cfg = EmptyConfig
        /\ put = NoPut
        /\ puts = 0
        /\ now = 0
        /\ act = NoAct
        /\ s_sessions = NoSessions
        /\ wall = StartTime
        /\ issued = 0
        /\ ended = {}
        /\ fails = 0
        /\ sreq = NoReq
        /\ reply = NoReply
        /\ s_session_lock = 0
        /\ workers = NoWorkers

\* config_save(path, &new_cfg)
SaveAggregate ==
    /\ wpc = "save"
    /\ file' = config_save(new_cfg)
    /\ wpc' = "load"
    /\ act' = [NoAct EXCEPT !.op = "config_save"]
    /\ UNCHANGED <<session_vars, g_config, s_config_path, s_current_config, s_config_loaded,
                   ui, ha, poll_timer, render_vars, s_running, new_cfg, reload_cfg, put,
                   puts, now>>

\* config_load(path, &reload_cfg) of the file just written
LoadAggregate ==
    /\ wpc = "load"
    /\ \E ld \in {config_load(file)} :
        /\ reload_cfg' = ld.cfg
        /\ put' = [put EXCEPT !.rc = ld.rc]
        /\ act' = [NoAct EXCEPT !.op = "config_load", !.rc = ld.rc]
    /\ wpc' = "loaded"
    /\ UNCHANGED <<session_vars, config_vars, ui, ha, poll_timer, render_vars, s_running,
                   new_cfg, puts, now>>

NextRoundTrip ==
    \/ SaveAggregate
    \/ LoadAggregate

SpecRoundTrip == InitRoundTrip /\ [][NextRoundTrip]_vars

\* the cookie values of the requests to the routes: none, or a token issued
RouteCookies == { <<>> } \cup { Tokens[k] : k \in 1..Min(issued, MaxTried) }

\* the server thread answering requests on every route, with and without a
\* session, while the clock moves by the session timeout
NextRoutes ==
    \/ ConfigServerStart
    \/ issued < RouteLogins /\ Login(<<"p">>, TRUE)
    \/ \E method \in Methods, uri \in Uris, val \in RouteCookies : Request(method, uri, val)
    \/ ReloadLoad
    \/ ReloadDestroy
    \/ ReloadInit
    \/ ReloadStore
    \/ UpdateConfig
    \/ Advances(wall) < FewAdvances /\ Advance(SESSION_TIMEOUT_SEC)

SpecRoutes == Init /\ [][NextRoutes]_vars

\* request bodies that name another endpoint and another credential than any
\* aggregate of startup
EndpointBodies ==
    { [ha_url |-> <<"g">>, ha_token |-> <<"u">>, lights |-> <<LightB>>],
      [ha_url |-> <<"g">>, ha_token |-> <<"u">>, lights |-> <<LightA, LightB>>] }

\* both threads, the requests changing the endpoint and the credential
NextEndpoint ==
    \/ PollStep
    \/ ConfigServerStart
    \/ PollTimer
    \/ \E index \in 0..(LIGHT_MAX_COUNT - 1) : Tap(index)
    \/ \E body \in EndpointBodies : PutConfig(body)
    \/ ReloadLoad
    \/ ReloadDestroy
    \/ ReloadInit
    \/ ReloadStore
    \/ UpdateConfig

SpecEndpoint == Init /\ [][NextEndpoint]_vars

\* an aggregate with no endpoint, no credential and no light
UnsetAggregate ==
    [ha |-> [base_url |-> <<>>, token |-> <<>>],
     web_password_hash |-> <<"$">>,
     lights |-> <<>>,
     light_count |-> 0]

\* what main() may find at the configuration path: a saved aggregate, or no file
BootFiles == { config_save(a) : a \in InitialAggregates \cup {UnsetAggregate} } \cup { <<>> }

\* the program when main() is about to call config_load
InitBoot ==
    /\ file \in BootFiles
    /\ g_config = EmptyConfig
    /\ s_config_path = ""
    /\ s_current_config = EmptyConfig
    /\ s_config_loaded = FALSE
    /\ ui = ui_statics
    /\ ha = ha_statics
    /\ poll_timer = FALSE
    /\ rpc = "config_load"
    /\ poll_i = 0
    /\ poll_count = 0
    /\ s_running = FALSE
    /\ wpc = "off"
    /\ new_cfg = EmptyConfig
    /\ reload_cfg = EmptyConfig
    /\ put = NoPut
    /\ puts = 0
    /\ now = 0
    /\ act = NoAct
    /\ s_sessions = NoSessions
    /\ wall = StartTime
    /\ issued = 0
    /\ ended = {}
    /\ fails = 0
    /\ sreq = NoReq
    /\ reply = NoReply
    /\ s_session_lock = 0
    /\ workers = NoWorkers

\* main() from config_load on, the render loop, and requests to the server
NextBoot ==
    \/ Boot
    \/ PollStep
    \/ ConfigServerStart
    \/ PollTimer
    \/ \E index \in 0..(LIGHT_MAX_COUNT - 1) : Tap(index)
    \/ issued < RouteLogins /\ Login(<<"p">>, TRUE)
    \/ \E method \in Methods, uri \in {"/", "/api/config"}, val \in RouteCookies :
          method = "GET" /\ Request(method, uri, val)

SpecBoot == InitBoot /\ [][NextBoot]_vars

\* both threads from startup to the return of main(); requests arrive until
\* the server thread has returned
NextStop ==
    \/ PollStep
    \/ ConfigServerStart
    \/ PollTimer
    \/ \E body \in Bodies : PutConfig(body)
    \/ \E method \in Methods, uri \in Uris : Request(method, uri, <<>>)
    \/ ReloadLoad
    \/ ReloadDestroy
    \/ ReloadInit
    \/ ReloadStore
    \/ UpdateConfig
    \/ Shutdown
    \/ ConfigServerStop
    \/ ServerThreadExit
    \/ ConfigServerJoin
    \/ HaClientCleanup
    \/ LightUiDestroy

SpecStop == Init /\ [][NextStop]_vars

\* threads calling the session functions at the same time
NextLock ==
    \/ ConfigServerStart
    \/ \E w \in Workers :
          \E op \in {"session_create", "session_validate", "session_destroy"},
             val \in RouteCookies : SessionCall(w, op, val)
    \/ \E w \in Workers : SessionStep(w)

SpecLock == Init /\ [][NextLock]_vars

\* the same, every thread inside a session function going on running, and the
\* mutex passing to a thread that keeps waiting for it
SpecLockFair ==
    /\ SpecLock
    /\ \A w \in Workers : WF_vars(SessionStep(w)) /\ SF_vars(SessionLock(w))

(***************************************************************************)
(* Properties                                                              *)
(***************************************************************************)
\* the operations that mutate the light registry
RegistryMutations == {"light_ui_init", "light_ui_destroy", "poll", "tap"}

\* the state a report of the remote stands for
ServerValue(server) ==
    CASE server = <<"o", "n">> -> LIGHT_STATE_ON
      [] server = <<"o", "f", "f">> -> LIGHT_STATE_OFF
      [] OTHER -> LIGHT_STATE_UNKNOWN

\* the registry entry of light i (0-based)
Entry(u, i) == u.tile_runtime[i + 1]

\* the aggregate a request body asks for, the password hash being kept
Candidate(body, prev) ==
    [ha |-> [base_url |-> body.ha_url, token |-> body.ha_token],
     web_password_hash |-> prev.web_password_hash,
     lights |-> body.lights,
     light_count |-> Len(body.lights)]

\* C1: every mutation of the light registry (light_ui_init, light_ui_destroy,
\* light_ui_set_state by a poll step, a tap) runs on the render thread; the
\* server thread, handling POST /api/config, calls none of them.
C1_RegistryMutationsOnRenderThread ==
    act.op \in RegistryMutations => act.thread = "render"

\* C2: registry replacement is atomic for the render loop: no poll step that
\* calls light_ui_set_state and no tap runs after light_ui_destroy of a reload
\* and before its light_ui_init.
C2_ReplacementAtomic ==
    wpc = "light_ui_init" =>
        ~(\/ act.op = "tap"
          \/ act.op = "poll" /\ act.xfer.res = "CURLE_OK")

\* C3: after every POST /api/config, the configuration file, the aggregate in
\* force and the lights of the registry are those of one aggregate: the
\* candidate when the request succeeded, the previous aggregate when it failed.
C3_ReloadAtomic ==
    (wpc = "idle" /\ put.rc \in {0, -1}) =>
        \E agg \in {IF put.rc = 0 THEN Candidate(put.body, put.prev) ELSE put.prev} :
            /\ config_load(file) = [rc |-> 0, cfg |-> agg]
            /\ g_config = agg
            /\ ui.tile_config = agg.lights

\* C4: for every light index i, after a poll of light i that completes with
\* the remote reporting v (ON, OFF, anything else standing for UNKNOWN),
\* confirmed(i) = optimistic(i) = v, whatever optimistic(i) was before.
C4_PollSuccessSetsBoth ==
    (/\ act.op = "poll"
     /\ act.xfer.res = "CURLE_OK"
     /\ act.xfer.http_code < 400
     /\ act.i < ui.light_count) =>
        /\ Entry(ui, act.i).state = ServerValue(act.xfer.server)
        /\ Entry(ui, act.i).optimistic = ServerValue(act.xfer.server)

\* a poll of the second light has just set it to ON while the first light
\* shows a tapped value that differs from its confirmed one
C4_Witness ==
    /\ act.op = "poll"
    /\ act.xfer.res = "CURLE_OK"
    /\ act.xfer.server = <<"o", "n">>
    /\ act.i = 1
    /\ ui.light_count = 2
    /\ Entry(ui, 1).state = LIGHT_STATE_ON
    /\ Entry(ui, 0).optimistic # Entry(ui, 0).state

\* C5: for every light index i, a poll of light i that ends in a connection
\* failure or a timeout leaves confirmed(i), optimistic(i) and
\* lastConfirmedAt(i) as they were before the poll.
C5_PollFailureKeepsEntry ==
    [][(/\ act'.op = "poll"
        /\ act'.xfer.res \in {"CURLE_COULDNT_CONNECT", "CURLE_OPERATION_TIMEDOUT"}
        /\ act'.i < ui.light_count) =>
            Entry(ui', act'.i) = Entry(ui, act'.i)]_vars

\* a poll has just timed out for a light that shows a tapped value over a
\* state confirmed at an earlier time
C5_Witness ==
    /\ act.op = "poll"
    /\ act.xfer.res = "CURLE_OPERATION_TIMEDOUT"
    /\ act.i < ui.light_count
    /\ Entry(ui, act.i).state = LIGHT_STATE_ON
    /\ Entry(ui, act.i).optimistic = LIGHT_STATE_OFF
    /\ Entry(ui, act.i).last_updated_ms < now

\* C6: for every light index i, a poll of light i that is answered with an
\* HTTP error status (4xx/5xx) sets confirmed(i) and optimistic(i) to UNKNOWN.
C6_PollHttpErrorSetsUnknown ==
    (/\ act.op = "poll"
     /\ act.xfer.res = "CURLE_OK"
     /\ act.xfer.http_code >= 400
     /\ act.i < ui.light_count) =>
        /\ Entry(ui, act.i).state = LIGHT_STATE_UNKNOWN
        /\ Entry(ui, act.i).optimistic = LIGHT_STATE_UNKNOWN

\* a poll of the second light has just been answered with 404 while the
\* first light is confirmed ON
C6_Witness ==
    /\ act.op = "poll"
    /\ act.xfer.res = "CURLE_OK"
    /\ act.xfer.http_code = 404
    /\ act.i = 1
    /\ ui.light_count = 2
    /\ Entry(ui, 0).state = LIGHT_STATE_ON
    /\ Entry(ui, 1).state = LIGHT_STATE_UNKNOWN

\* the address of the state of a light at the remote
StatesAddress(id) ==
    ha.s_base_url \o <<"/", "a", "p", "i", "/", "s", "t", "a", "t", "e", "s", "/">> \o id

\* C7: ha_poll_all attempts one read for every configured light, in list
\* order, whatever the outcome for earlier lights, and the outcome for light i
\* changes no registry entry other than entry i.
C7_PollAllEveryLightInOrder ==
    [][/\ (act'.op = "poll_timer_cb" /\ rpc' = "poll") =>
            (poll_i' = 0 /\ poll_count' = g_config.light_count)
       /\ act'.op = "poll" =>
            /\ act'.i = poll_i
            /\ Len(act'.reqs) = 1
            /\ act'.reqs[1].method = "GET"
            /\ act'.reqs[1].url = StatesAddress(LightAt(g_config, poll_i).entity_id)
            /\ IF poll_i + 1 < poll_count
               THEN rpc' = rpc /\ poll_i' = poll_i + 1 /\ poll_count' = poll_count
               ELSE rpc' \notin {"boot_poll", "poll"}
            /\ ui'.light_count = ui.light_count
            /\ \A k \in 0..(ui.light_count - 1) :
                    k # poll_i => Entry(ui', k) = Entry(ui, k)]_vars

\* the read of the first light has just failed and the loop is at the second
C7_Witness ==
    /\ act.op = "poll"
    /\ act.i = 0
    /\ act.xfer.res = "CURLE_COULDNT_CONNECT"
    /\ rpc = "poll"
    /\ poll_i = 1
    /\ poll_count = 2

\* the value a tap turns the optimistic state into
Flipped(state) == IF state = LIGHT_STATE_ON THEN LIGHT_STATE_OFF ELSE LIGHT_STATE_ON

\* C8: a tap on light i sets optimistic(i) to OFF if it was ON and to ON if it
\* was OFF or UNKNOWN, leaves confirmed(i) and every other light unchanged, and
\* invokes the toggle callback with the id of light i and the optimistic value
\* held before the tap.
C8_TapFlipsAndInvokes ==
    [][act'.op = "tap" =>
        /\ Entry(ui', act'.i).optimistic = Flipped(Entry(ui, act'.i).optimistic)
        /\ Entry(ui', act'.i).state = Entry(ui, act'.i).state
        /\ ui'.light_count = ui.light_count
        /\ \A k \in 0..(ui.light_count - 1) :
                k # act'.i => Entry(ui', k) = Entry(ui, k)
        /\ act'.cb = <<ui.tile_config[act'.i + 1].entity_id,
                       Entry(ui, act'.i).optimistic>>]_vars

\* C9: after any number of successful hot reloads a tap on a configured light
\* still issues a toggle command to the client: the toggle callback set at
\* startup is invoked.
C9_TapStillToggles ==
    act.op = "tap" => act.cb # <<>>

\* the part of an id before its first '.'
DomainOf(id) ==
    SubSeq(id, 1, (CHOOSE p \in 1..Len(id) :
                      id[p] = "." /\ \A q \in 1..(p - 1) : id[q] # ".") - 1)

\* the command that is the opposite of the state the remote reported
CommandFor(server) ==
    IF ServerValue(server) = LIGHT_STATE_ON THEN <<"t", "u", "r", "n", "_", "o", "f", "f">>
    ELSE <<"t", "u", "r", "n", "_", "o", "n">>

\* a read of the light followed by one command, chosen by the state read and
\* addressed to the domain of the id
ReadThenCommand(reqs, id, server) ==
    /\ Len(reqs) = 2
    /\ reqs[1].method = "GET"
    /\ reqs[1].url = StatesAddress(id)
    /\ reqs[2].method = "POST"
    /\ reqs[2].url = ha.s_base_url
                      \o <<"/", "a", "p", "i", "/", "s", "e", "r", "v", "i", "c", "e", "s", "/">>
                      \o DomainOf(id) \o <<"/">> \o CommandFor(server)

\* C10 as stated: ha_toggle_light(id) first re-reads the state of the light
\* and then sends exactly one command, turn_off if the value read is ON and
\* turn_on if it is OFF or UNKNOWN, addressed to the domain before the first
\* '.' of id, whatever the optimistic value before the tap was.
C10_ToggleReadsThenCommands ==
    (act.op = "tap" /\ act.cb # <<>>) =>
        ReadThenCommand(act.reqs, act.cb[1], act.read)

\* C10 amended: the same, for a client that ha_client_init has set up; a
\* client that was not set up issues no request at all.
C10_ToggleReadsThenCommandsWhenSetUp ==
    (act.op = "tap" /\ act.cb # <<>>) =>
        IF ha.s_curl THEN ReadThenCommand(act.reqs, act.cb[1], act.read)
        ELSE act.reqs = <<>> /\ act.rc = -1

\* a tap on the light s.b showing ON, whose re-read reported off: the command
\* goes to the domain s and is turn_on
C10_Witness ==
    /\ act.op = "tap"
    /\ ha.s_curl
    /\ act.cb = <<LightB.entity_id, LIGHT_STATE_ON>>
    /\ act.read = <<"o", "f", "f">>
    /\ Len(act.reqs) = 2

\* the address of the turn_on service for the domain of a light
TurnOnAddress(id) ==
    ha.s_base_url \o <<"/", "a", "p", "i", "/", "s", "e", "r", "v", "i", "c", "e", "s", "/">>
                  \o DomainOf(id) \o <<"/", "t", "u", "r", "n", "_", "o", "n">>

\* C11: a tap on a light whose optimistic state is UNKNOWN turns optimistic
\* to ON, and every command sent to the remote for that tap is turn_on,
\* whatever state the remote reports.
C11_UnknownTapTurnsOn ==
    [][(act'.op = "tap" /\ Entry(ui, act'.i).optimistic = LIGHT_STATE_UNKNOWN) =>
        /\ Entry(ui', act'.i).optimistic = LIGHT_STATE_ON
        /\ \A k \in 1..Len(act'.reqs) :
              act'.reqs[k].method = "POST" =>
                  act'.reqs[k].url = TurnOnAddress(ui.tile_config[act'.i + 1].entity_id)]_vars

\* C12: the light_ui_init step of a reload leaves the registry holding exactly
\* the lights of the new aggregate, in its order, every one with confirmed and
\* optimistic UNKNOWN; no light of the previous aggregate remains.
C12_ReloadResetsRegistry ==
    [][act'.op = "light_ui_init" =>
        /\ reload_cfg = config_load(file).cfg
        /\ ui'.light_count = reload_cfg.light_count
        /\ ui'.tile_config = reload_cfg.lights
        /\ Len(ui'.tile_runtime) = reload_cfg.light_count
        /\ \A k \in 0..(reload_cfg.light_count - 1) :
              /\ Entry(ui', k).state = LIGHT_STATE_UNKNOWN
              /\ Entry(ui', k).optimistic = LIGHT_STATE_UNKNOWN]_vars

\* a reload has just rebuilt the registry with the single light s.b, UNKNOWN,
\* where the previous aggregate held l.a and s.b
C12_Witness ==
    /\ act.op = "light_ui_init"
    /\ put.prev.lights = <<LightA, LightB>>
    /\ ui.tile_config = <<LightB>>
    /\ ui.light_count = 1
    /\ Entry(ui, 0).state = LIGHT_STATE_UNKNOWN
    /\ Entry(ui, 0).optimistic = LIGHT_STATE_UNKNOWN

\* C13: a POST /api/config whose candidate holds more than 16 lights is
\* rejected, and the rejection leaves the file, the aggregate in force and the
\* registry unchanged and starts no reload.
C13_TooManyLightsRejected ==
    [][(act'.op = "config_save" /\ Len(put'.body.lights) > CONFIG_MAX_LIGHTS) =>
        /\ act'.rc = -1
        /\ file' = file
        /\ g_config' = g_config
        /\ ui' = ui
        /\ wpc' = "idle"]_vars

\* the validation invariants of an aggregate (spec 4.3)
IdChars == Letters \cup Digits \cup {"_"}

ValidId(id) ==
    \E d \in 2..(Len(id) - 1) :
        /\ id[d] = "."
        /\ \A p \in 1..Len(id) : p # d => id[p] \in IdChars

ValidName(label) == Len(label) >= 1 /\ Len(label) <= 31

ValidAggregate(cfg) ==
    /\ Len(cfg.lights) <= 16
    /\ cfg.light_count = Len(cfg.lights)
    /\ \A k \in 1..Len(cfg.lights) :
          ValidId(cfg.lights[k].entity_id) /\ ValidName(cfg.lights[k].label)

\* C14: the candidate is validated before it is persisted: whenever
\* POST /api/config has written the file, the file holds an aggregate that
\* satisfies the validation invariants.
C14_StoreHoldsValidAggregate ==
    (act.op = "config_save" /\ act.rc = 0) =>
        \E ld \in {config_load(file)} : ld.rc = 0 /\ ValidAggregate(ld.cfg)

\* C15: every aggregate in force, loaded at startup or adopted by a reload,
\* satisfies the validation invariants: at most 16 lights, every id of the
\* form <domain>.<name> over letters, digits and '_', every displayName
\* non-empty and at most 31 characters.
C15_InForceAggregateValid ==
    ValidAggregate(g_config)

\* a request with a valid candidate has completed and its aggregate is in
\* force
C15_Witness ==
    /\ wpc = "idle"
    /\ put.rc = 0
    /\ put.body.lights = <<LightB>>
    /\ put.prev.lights = <<LightA, LightB>>
    /\ g_config.lights = <<LightB>>
    /\ s_config_loaded

\* a slot of S holds token and was last active within the timeout before t
Live(S, token, t) ==
    \E k \in 1..MAX_SESSIONS :
        /\ S[k].last_active # 0
        /\ S[k].token = token
        /\ t - S[k].last_active <= SESSION_TIMEOUT_SEC

\* C16: session_validate(token) returns 1 if and only if a slot holds the
\* token and was last active within the hour before the call; when it returns
\* 1 that session's last_active becomes the time of the call; for the empty
\* token it returns 0.
C16_ValidateIffLive ==
    [][act'.op = "session_validate" =>
        /\ (sreq'.rc = 1) <=> Live(s_sessions, sreq'.val, wall)
        /\ sreq'.rc = 1 =>
              \A k \in 1..MAX_SESSIONS :
                  (s_sessions[k].last_active # 0 /\ s_sessions[k].token = sreq'.val) =>
                      s_sessions'[k] = [token |-> sreq'.val, last_active |-> wall]
        /\ sreq'.val = <<>> => sreq'.rc = 0]_vars

\* a request has just been authenticated exactly one hour after the start: the
\* session it belongs to is refreshed to that time, and a stale session is
\* still in the table
C16_Witness ==
    /\ sreq.op = "session_validate"
    /\ sreq.rc = 1
    /\ wall = StartTime + SESSION_TIMEOUT_SEC
    /\ \E k \in 1..MAX_SESSIONS :
          s_sessions[k] = [token |-> sreq.val, last_active |-> wall]
    /\ \E k \in 1..MAX_SESSIONS :
          s_sessions[k].last_active = StartTime

\* slot k of S is in use
InUse(S, k) == S[k].last_active # 0

\* slot k of S is in use and has been idle for longer than the timeout at t
Expired(S, k, t) == InUse(S, k) /\ t - S[k].last_active > SESSION_TIMEOUT_SEC

\* C17: session_validate of a token whose session has been idle for longer
\* than the timeout returns 0 and frees that session's slot; a login that
\* finds a free slot stores its session in the first free slot and leaves
\* every session in the table as it was; a token whose session has expired,
\* freed or not yet, is refused by session_validate from then on.
C17_ExpiredSlotReused ==
    [][/\ act'.op = "session_validate" =>
            \A k \in 1..MAX_SESSIONS :
                (Expired(s_sessions, k, wall) /\ s_sessions[k].token = sreq'.val) =>
                    /\ sreq'.rc = 0
                    /\ s_sessions'[k] = FreeSlot
       /\ (act'.op = "login" /\ sreq'.status = 302
             /\ \E k \in 1..MAX_SESSIONS : ~InUse(s_sessions, k)) =>
            /\ \A k \in 1..MAX_SESSIONS :
                  InUse(s_sessions, k) => s_sessions'[k] = s_sessions[k]
            /\ \E k \in 1..MAX_SESSIONS :
                  /\ ~InUse(s_sessions, k)
                  /\ \A j \in 1..(k - 1) : InUse(s_sessions, j)
                  /\ s_sessions'[k] = [token |-> sreq'.cookie, last_active |-> wall]
            /\ ended' = ended
       /\ \A e \in ended' :
            e[2] = "expired" => session_validate(s_sessions', e[1], wall').rc = 0
       /\ \A k \in 1..MAX_SESSIONS :
            Expired(s_sessions', k, wall') =>
                session_validate(s_sessions', s_sessions'[k].token, wall').rc = 0]_vars

\* the third login has just taken the first slot, which the validate of the
\* expired first session had freed, while the second session is still live
C17_Witness ==
    /\ sreq.op = "login"
    /\ sreq.status = 302
    /\ issued = 3
    /\ s_sessions[1] = [token |-> sreq.cookie, last_active |-> wall]
    /\ <<hex_string(urandom(1)), "expired">> \in ended
    /\ s_sessions[2].token = hex_string(urandom(2))
    /\ Live(s_sessions, s_sessions[2].token, wall)
    /\ \A e \in ended : e[2] = "expired"

\* every slot of S is in use
TableFull(S) == \A k \in 1..MAX_SESSIONS : InUse(S, k)

\* C18: a successful login into a table whose 8 slots are all in use replaces
\* exactly one session, one whose last_active (as refreshed by
\* session_validate) is the smallest of the table, by the new session; the
\* other 7 slots are untouched and their sessions, valid before, are valid
\* after; an evicted token is refused by session_validate from then on.
C18_FullTableEvictsLeastRecent ==
    [][/\ (act'.op = "login" /\ sreq'.status = 302 /\ TableFull(s_sessions)) =>
            \E k \in 1..MAX_SESSIONS :
                /\ \A j \in 1..MAX_SESSIONS :
                      s_sessions[k].last_active <= s_sessions[j].last_active
                /\ s_sessions'[k] = [token |-> sreq'.cookie, last_active |-> wall]
                /\ s_sessions'[k].token # s_sessions[k].token
                /\ ended' = ended \cup {<<s_sessions[k].token, "evicted">>}
                /\ \A j \in 1..MAX_SESSIONS \ {k} :
                      /\ s_sessions'[j] = s_sessions[j]
                      /\ session_validate(s_sessions, s_sessions[j].token, wall).rc = 1 =>
                            session_validate(s_sessions', s_sessions[j].token, wall').rc = 1
       /\ \A e \in ended' :
            e[2] = "evicted" => session_validate(s_sessions', e[1], wall').rc = 0]_vars

\* the ninth login has just evicted the second session: the first one had been
\* refreshed by a request after the eight logins and is still in its slot
C18_Witness ==
    /\ sreq.op = "login"
    /\ sreq.status = 302
    /\ issued = MAX_SESSIONS + 1
    /\ s_sessions[1] = [token |-> hex_string(urandom(1)), last_active |-> wall]
    /\ s_sessions[2] = [token |-> sreq.cookie, last_active |-> wall]
    /\ ended = {<<hex_string(urandom(2)), "evicted">>}
    /\ \A k \in 3..MAX_SESSIONS : s_sessions[k].last_active < wall

\* slot k of S is in use and holds token
Holds(S, k, token) == InUse(S, k) /\ S[k].token = token

\* C19: POST /logout frees the slot that holds the cookie's token, if there is
\* one, and leaves every other slot as it was; it answers 200 whether or not a
\* session was found; afterwards session_validate of that token returns 0 and
\* a further session_destroy of it changes nothing; with a token no slot
\* holds, or none, the table is unchanged. A logged-out token is refused from
\* then on.
C19_LogoutRemovesOnlyThatSession ==
    [][/\ act'.op = "logout" =>
            /\ \A k \in 1..MAX_SESSIONS :
                  IF Holds(s_sessions, k, sreq'.val)
                  THEN s_sessions'[k] = FreeSlot
                  ELSE s_sessions'[k] = s_sessions[k]
            /\ (sreq'.val = <<>> \/ \A k \in 1..MAX_SESSIONS : ~Holds(s_sessions, k, sreq'.val))
                  => s_sessions' = s_sessions
            /\ sreq'.status = 200
            /\ session_validate(s_sessions', sreq'.val, wall').rc = 0
            /\ session_destroy(s_sessions', sreq'.val) = s_sessions'
       /\ \A e \in ended' :
            e[2] = "logout" => session_validate(s_sessions', e[1], wall').rc = 0]_vars

\* the first session has just been logged out while the second one is live
C19_Witness ==
    /\ sreq.op = "logout"
    /\ sreq.val = hex_string(urandom(1))
    /\ <<sreq.val, "logout">> \in ended
    /\ s_sessions[1] = FreeSlot
    /\ s_sessions[2].token = hex_string(urandom(2))
    /\ Live(s_sessions, s_sessions[2].token, wall)

\* password is not the one the stored hash was made from
WrongPassword(password) ==
    crypt_r(password, g_config.web_password_hash) # g_config.web_password_hash

\* token is 64 characters, each a lower-case hexadecimal digit
IsHexToken(token) ==
    /\ Len(token) = SESSION_TOKEN_HEX
    /\ \A n \in 1..Len(token) : \E d \in 1..Len(HexDigits) : token[n] = HexDigits[d]

\* C20: POST /login with a wrong password leaves the session table as it was,
\* sets no cookie, and answers only after the LOGIN_FAIL_DELAY_MS sleep, of at
\* least a second; POST /login with the right password, after any number of
\* failed logins in a row and with /dev/urandom readable, answers 302 with a
\* cookie of 64 hexadecimal digits that no session held before and that
\* session_validate accepts.
C20_FailedLoginsLeaveLoginWorking ==
    [][act'.op = "login" =>
        IF WrongPassword(sreq'.val)
        THEN /\ s_sessions' = s_sessions
             /\ issued' = issued
             /\ sreq'.rc = 0
             /\ sreq'.cookie = <<>>
             /\ sreq'.status # 302
             /\ sreq'.delay_ms = LOGIN_FAIL_DELAY_MS
             /\ sreq'.delay_ms >= 1000
             /\ (wall' - wall) * 1000 >= sreq'.delay_ms
        ELSE sreq'.random_ok =>
             /\ sreq'.status = 302
             /\ sreq'.delay_ms = 0
             /\ IsHexToken(sreq'.cookie)
             /\ \A k \in 1..MAX_SESSIONS : s_sessions[k].token # sreq'.cookie
             /\ \A e \in ended : e[1] # sreq'.cookie
             /\ session_validate(s_sessions', sreq'.cookie, wall').rc = 1]_vars

\* a login with the right password has just succeeded after three failed
\* logins in a row, each of which held its answer back for a second
C20_Witness ==
    /\ sreq.op = "login"
    /\ ~WrongPassword(sreq.val)
    /\ sreq.after_fails = 3
    /\ wall >= StartTime + 3
    /\ sreq.status = 302
    /\ IsHexToken(sreq.cookie)
    /\ \E k \in 1..MAX_SESSIONS : s_sessions[k] = [token |-> sreq.cookie, last_active |-> wall]

\* the last step was ev_handler answering a request on a route other than
\* POST /login
Routed == act.thread = "server" /\ act.op \in {"request", "config_save"}

\* C21: a request without a valid session to any route other than GET / and
\* POST /login is answered with a 302 to the login page at "/", with no body,
\* and leaves the configuration, the file, the registry and every live
\* session as they were; this covers GET /api/config, POST /api/config,
\* GET /settings and POST /logout.
C21_NoSessionNoAccess ==
    [][(Routed' /\ reply'.route # "login_page" /\ 
          ~Live(s_sessions, get_session_cookie(reply'.val, SESSION_TOKEN_HEX + 1), wall)) =>
          /\ reply'.status = 302
          /\ reply'.location = "/"
          /\ reply'.body = ""
          /\ UNCHANGED <<config_vars, ui, web_vars>>
          /\ \A k \in 1..MAX_SESSIONS :
                (InUse(s_sessions, k) /\ ~Expired(s_sessions, k, wall)) =>
                    s_sessions'[k] = s_sessions[k]]_vars

\* C22: for every valid aggregate, config_load of the file config_save wrote
\* returns 0 and an aggregate equal to the one saved: the same ha_url,
\* ha_token and web_password_hash and the same lights in the same order,
\* also when a field holds a double quote, a backslash or the name of a key.
C22_SaveLoadRoundTrip ==
    (wpc = "loaded" /\ ValidAggregate(new_cfg)) =>
        /\ put.rc = 0
        /\ reload_cfg = new_cfg

\* C23: a POST /api/config with a valid aggregate, repeated with the same
\* body after the first has returned 0, builds the same candidate and writes
\* the same file again; every such call runs config_reload once (config_load
\* succeeds, then light_ui_destroy, light_ui_init, the store and the copy, in
\* that order and only after a config_save), and when it returns the
\* aggregate in force and the registry hold exactly the candidate's lights.
C23_PutConfigIdempotent ==
    [][/\ (act'.op = "config_save" /\ act'.rc = 0 /\ puts = 1 /\ put.rc = 0
             /\ put'.body = put.body /\ ValidAggregate(new_cfg')) =>
            /\ new_cfg' = new_cfg
            /\ file' = file
       /\ (act'.op = "config_load" /\ ValidAggregate(new_cfg)) =>
            /\ act'.rc = 0
            /\ wpc' = "light_ui_destroy"
       /\ (wpc' # wpc /\ wpc' = "config_reload") => act'.op = "config_save"
       /\ (wpc' # wpc /\ wpc' = "light_ui_destroy") => wpc = "config_reload"
       /\ (wpc' # wpc /\ wpc' = "light_ui_init") => wpc = "light_ui_destroy"
       /\ act'.op = "light_ui_init" => wpc = "light_ui_init" /\ wpc' = "store"
       /\ (act'.op = "copy" /\ ValidAggregate(new_cfg)) =>
            /\ put'.rc = 0
            /\ g_config' = new_cfg
            /\ ui'.tile_config = new_cfg.lights
            /\ ui'.light_count = new_cfg.light_count
            /\ Len(ui'.tile_runtime) = new_cfg.light_count]_vars

\* C24: handle_config_update returns 0 once the candidate is saved, before any
\* reload step has run: the reload (config_load of the new file,
\* light_ui_destroy, light_ui_init and the store of the new aggregate) runs
\* afterwards on the render thread, in a pass of its loop, and once it has run
\* the registry holds the lights of the last aggregate accepted.
C24_ReloadHandedToRenderLoop ==
    [][/\ (act'.op = "config_save" /\ act'.rc = 0) => put'.rc = 0 /\ wpc' = "idle"
       /\ act'.op \in {"config_load", "light_ui_destroy", "light_ui_init", "store"} =>
            /\ act'.thread = "render"
            /\ rpc = "loop"
            /\ put.rc = 0
       /\ act'.op = "light_ui_init" => ui'.tile_config = new_cfg.lights]_vars

\* thread w is between pthread_mutex_lock and pthread_mutex_unlock
InCritical(w) == workers[w].pc \in {"scan", "write_token", "write_time", "unlock"}

\* session_create has not yet stored token in the table
BeingCreated(token) ==
    \E w \in Workers :
        /\ workers[w].op = "session_create"
        /\ workers[w].token = token
        /\ workers[w].pc \in {"lock", "scan", "write_token"}

\* the threads touch s_sessions only while holding s_session_lock, and hold it
\* nowhere else; a slot is half written only while the thread writing it holds
\* the lock, so a loop over the table finds whole slots only; every token
\* stored and not removed since sits in exactly one slot
LockInv ==
    /\ \A w \in Workers : InCritical(w) <=> s_session_lock = w
    /\ \A k \in 1..MAX_SESSIONS :
          (s_sessions[k].token # <<>> /\ s_sessions[k].last_active = 0) =>
              \E w \in Workers : /\ workers[w].pc = "write_time"
                                 /\ workers[w].idx + 1 = k
                                 /\ s_session_lock = w
    /\ \A w \in Workers :
          workers[w].pc = "scan" =>
              \A k \in 1..MAX_SESSIONS :
                  s_sessions[k].token # <<>> => s_sessions[k].last_active # 0
    /\ \A n \in 1..issued :
          LET token == Tokens[n]
          IN (~BeingCreated(token) /\ \A e \in ended : e[1] # token) =>
                Cardinality({ k \in 1..MAX_SESSIONS : s_sessions[k].token = token }) = 1

Stopped == rpc \in {"ha_client_cleanup", "light_ui_destroy", "exit"}

\* the steps that release what the threads share
Teardown == {"mg_mgr_free", "ha_client_cleanup", "light_ui_destroy"}

\* C26: once config_server_stop has returned no step of the server thread (no
\* request handler, no reload) is taken any more, and the mongoose manager,
\* the HA client and the Light Registry are released by main() only when the
\* server thread has returned
C26_JoinBeforeTeardown ==
    /\ [][Stopped => act'.thread # "server"]_vars
    /\ [][(act'.thread = "render" /\ act'.op \in Teardown) => wpc = "off" /\ ~s_running]_vars

\* main() waits in pthread_join while the server thread is in the middle of a reload
C26_Witness ==
    /\ rpc = "pthread_join"
    /\ ~s_running
    /\ wpc = "store"
    /\ act.op = "light_ui_init"
    /\ act.thread = "server"

\* cfg has no endpoint, no credential and no light
Unset(cfg) == cfg.ha.base_url = <<>> /\ cfg.ha.token = <<>> /\ cfg.light_count = 0

\* C27: main() ends before its loop exactly when config_load fails (a failure
\* of ha_client_init does not end it); started from an aggregate with no
\* endpoint, no credential and no light it goes on to start the server with
\* an empty registry and no poll timer; config_server_start leads to the loop
\* whether or not it succeeds; and with such an aggregate in force no step
\* issues a remote request
C27_StartsWithoutSettings ==
    /\ [][act'.op = "main" =>
            /\ (rpc' = "exit") <=> (config_load(file).rc # 0)
            /\ (config_load(file).rc = 0 /\ Unset(config_load(file).cfg)) =>
                  /\ rpc' = "boot_server"
                  /\ ui'.light_screen
                  /\ ui'.light_count = 0
                  /\ ui'.tile_runtime = <<>>
                  /\ ~poll_timer']_vars
    /\ [][act'.op = "config_server_start" => rpc' = "loop"]_vars
    /\ [][rpc = "exit" => FALSE]_vars
    /\ [][Unset(g_config') => act'.reqs = <<>>]_vars

\* started with nothing configured, main() is in its loop and the server has
\* answered GET /api/config of a logged-in client
C27_Witness ==
    /\ file = config_save(UnsetAggregate)
    /\ Unset(g_config)
    /\ rpc = "loop"
    /\ ui.light_count = 0
    /\ reply.route = "config_json"
    /\ reply.authed = 1
    /\ reply.status = 200

\* the candidate of the last POST /api/config violates a validation invariant
\* and the request has been answered
Rejected ==
    /\ wpc = "idle"
    /\ put.rc \in {0, -1}
    /\ ~ValidAggregate(Candidate(put.body, put.prev))

\* C28: a POST /api/config whose candidate violates a validation invariant is
\* answered with a 4xx status, and nothing of the candidate is applied: the
\* file, the aggregate in force and the registry are those of before.
C28_RejectedPutIs4xx ==
    Rejected =>
        /\ config_update_status(put.rc) \in 400..499
        /\ config_load(file) = [rc |-> 0, cfg |-> put.prev]
        /\ g_config = put.prev
        /\ ui.tile_config = put.prev.lights

\* the last POST /api/config was accepted and has been answered
Accepted == wpc = "idle" /\ put.rc = 0

\* every request of the last step went to the endpoint of cfg
SentTo(cfg) ==
    \A k \in 1..Len(act.reqs) :
        /\ Len(act.reqs[k].url) >= Len(cfg.ha.base_url)
        /\ SubSeq(act.reqs[k].url, 1, Len(cfg.ha.base_url)) = cfg.ha.base_url

\* C29: once a POST /api/config has been accepted, the requests of every poll
\* and toggle go to the endpoint of the aggregate in force with its
\* credential, and the poll timer exists whenever that aggregate has a
\* non-empty endpoint and a non-empty credential.
C29_NewEndpointInForce ==
    Accepted =>
        /\ act.op \in {"poll", "tap"} => SentTo(g_config) /\ ha.s_headers = g_config.ha.token
        /\ (Len(g_config.ha.base_url) > 0 /\ Len(g_config.ha.token) > 0) => poll_timer

\* the last step was a poll of a light that failed: no connection, a timeout,
\* or an HTTP error status
FailedPoll ==
    /\ act.op = "poll"
    /\ act.xfer.res # "CURLE_OK" \/ act.xfer.http_code >= 400

\* C30: no step removes the poll timer; after a failed poll of a light the
\* timer fires again and starts a poll of all lights, that light among them;
\* every step of a poll goes on to the next light whatever the outcome of
\* its read, and a poll that has been started comes to its end.
C30_FailedPollIsRetried ==
    /\ [][poll_timer => poll_timer']_vars
    /\ [][act'.op = "poll" =>
            /\ act'.i = poll_i
            /\ act'.i < g_config.light_count
            /\ poll_i + 1 < poll_count => (rpc' = rpc /\ poll_i' = poll_i + 1)]_vars
    /\ FailedPoll ~> (/\ act.op = "poll_timer_cb"
                      /\ rpc = "poll"
                      /\ poll_i = 0
                      /\ poll_count = g_config.light_count)
    /\ (rpc = "poll") ~> (rpc = "loop")

\* in a poll started by the timer the read of the first light has just failed
\* to connect, and the poll goes on with the second light
C30_Witness ==
    /\ FailedPoll
    /\ act.xfer.res = "CURLE_COULDNT_CONNECT"
    /\ act.i = 0
    /\ poll_timer
    /\ rpc = "poll"
    /\ poll_i = 1

\* the registry entry of the light of the step just taken shows, after the
\* step, the state the remote confirmed
Reverted == Entry(ui', act'.i).optimistic = Entry(ui', act'.i).state

\* a tap whose toggle failed changes the registry by the flip of tile_click_cb
\* and by nothing else
FailedToggleKeepsRegistry ==
    (act'.op = "tap" /\ act'.rc = -1) => ui' = tile_click_cb(ui, act'.i).ui

RECURSIVE JsonText(_)
JsonText(esc) ==
    IF esc = <<>> THEN <<>>
    ELSE IF esc[1] = "\\" /\ Len(esc) > 1 THEN <<esc[2]>> \o JsonText(SubSeq(esc, 3, Len(esc)))
    ELSE <<esc[1]>> \o JsonText(Tail(esc))

\* the reply of GET /api/config carries endpoint, credential and lights of body
Returns(doc, body) ==
    /\ JsonText(doc.ha_url) = body.ha_url
    /\ JsonText(doc.ha_token) = body.ha_token
    /\ Len(doc.lights) = Len(body.lights)
    /\ \A k \in 1..Len(doc.lights) :
          /\ JsonText(doc.lights[k].entity_id) = body.lights[k].entity_id
          /\ JsonText(doc.lights[k].label) = body.lights[k].label
          /\ JsonText(doc.lights[k].icon) = body.lights[k].icon

\* C33: when POST /api/config has reported success, GET /api/config returns
\* exactly the endpoint, the credential and the list of lights of the body
\* posted: same length, same ids, labels and icons.
C33_AcceptedCandidateInForce ==
    Accepted => Returns(serve_config_json(g_config), put.body)

\* the step changes the optimistic value of the entry of light i
OptimisticChanged(i) ==
    /\ i < ui.light_count
    /\ i < ui'.light_count
    /\ Entry(ui', i).optimistic # Entry(ui, i).optimistic

\* C34 as stated: every change of the optimistic value of a light is made by a
\* tap on that light or by a poll of that light that succeeded.
C34_OptimisticByTapOrPollSuccess ==
    [][\A i \in 0..(LIGHT_MAX_COUNT - 1) :
          OptimisticChanged(i) =>
             \/ act'.op = "tap" /\ act'.i = i
             \/ /\ act'.op = "poll" /\ act'.i = i
                /\ act'.xfer.res = "CURLE_OK" /\ act'.xfer.http_code < 400]_vars

\* C34 amended: every change of the optimistic value of a light is made by a
\* tap on that light or by a poll of that light that the remote answered,
\* with a state or with an HTTP error status.
C34_OptimisticByTapOrAnsweredPoll ==
    [][\A i \in 0..(LIGHT_MAX_COUNT - 1) :
          OptimisticChanged(i) =>
             \/ act'.op = "tap" /\ act'.i = i
             \/ act'.op = "poll" /\ act'.i = i /\ act'.xfer.res = "CURLE_OK"]_vars

\* the poll of the second light has just been answered with 404 and its tile
\* shows UNKNOWN, while the first light, confirmed OFF, shows the ON of a tap
C34_Witness ==
    /\ act.op = "poll"
    /\ act.i = 1
    /\ act.xfer.http_code = 404
    /\ ui.light_count = 2
    /\ Entry(ui, 1).optimistic = LIGHT_STATE_UNKNOWN
    /\ Entry(ui, 0).state = LIGHT_STATE_OFF
    /\ Entry(ui, 0).optimistic = LIGHT_STATE_ON

\* the last step was a poll that wrote its result to a registry entry
PollWrote ==
    /\ act.op = "poll"
    /\ act.xfer.res = "CURLE_OK"
    /\ act.i < ui.light_count

\* C35: a poll result is written to the registry entry of the light that was
\* asked for, and the aggregate the poll iterates is not overwritten while a
\* poll is running, a reload on the server thread being in progress or not.
C35_PollWritesItsOwnLight ==
    /\ [](PollWrote =>
            act.reqs[1].url = states_url(ha, ui.tile_config[act.i + 1].entity_id))
    /\ [][act'.op = "copy" => rpc \notin {"boot_poll", "poll"}]_vars

\* the password hash every configuration file of startup holds
StartupHash == <<"$">>

\* the string values of the reply of GET /api/config, one after another
ReplyText(doc) ==
    LET RECURSIVE Join(_)
        Join(k) == IF k > Len(doc.lights) THEN <<>>
                   ELSE doc.lights[k].entity_id \o <<" ">> \o doc.lights[k].label \o <<" ">>
                        \o doc.lights[k].icon \o <<" ">> \o Join(k + 1)
    IN doc.ha_url \o <<" ">> \o doc.ha_token \o <<" ">> \o Join(1)

\* C36: whatever bodies were posted to /api/config, the password hash of the
\* aggregate in force and the one a load of the file finds are the hash of
\* startup, and the reply of GET /api/config does not contain it.
C36_PasswordHashUntouched ==
    /\ g_config.web_password_hash = StartupHash
    /\ json_get_string(file, HashKey, CONFIG_WEB_HASH_MAX).val = StartupHash
    /\ strstr(ReplyText(serve_config_json(g_config)), g_config.web_password_hash, 1) = 0

\* slot k of S holds a session that session_validate would accept at time t
LiveSlot(S, k, t) == S[k].last_active # 0 /\ t - S[k].last_active <= SESSION_TIMEOUT_SEC

\* C37: a successful login into a table with an unused slot stores the new
\* session in an unused slot, changes no other slot, and leaves every live
\* session live; a login overwrites a live session only when all 8 slots are
\* in use, and then only if no slot holds an expired session.
C37_FreeSlotBeforeEviction ==
    [][(act'.op = "login" /\ sreq'.status = 302) =>
          /\ (\E k \in 1..MAX_SESSIONS : s_sessions[k].last_active = 0) =>
                /\ \E k \in 1..MAX_SESSIONS :
                      /\ s_sessions[k].last_active = 0
                      /\ s_sessions'[k].token = sreq'.cookie
                      /\ \A j \in 1..MAX_SESSIONS \ {k} : s_sessions'[j] = s_sessions[j]
                /\ \A k \in 1..MAX_SESSIONS :
                      LiveSlot(s_sessions, k, wall) =>
                          session_validate(s_sessions', s_sessions[k].token, wall').rc = 1
          /\ \A k \in 1..MAX_SESSIONS :
                (LiveSlot(s_sessions, k, wall) /\ s_sessions'[k] # s_sessions[k]) =>
                    \A j \in 1..MAX_SESSIONS : LiveSlot(s_sessions, j, wall)]_vars

\* the third login has just taken the first slot, which the logout of the
\* first session had freed, while the second session is still in its slot
C37_Witness ==
    /\ sreq.op = "login"
    /\ sreq.status = 302
    /\ issued = 3
    /\ s_sessions[1] = [token |-> Tokens[3], last_active |-> wall]
    /\ <<Tokens[1], "logout">> \in ended
    /\ s_sessions[2].token = Tokens[2]
    /\ LiveSlot(s_sessions, 2, wall)
    /\ s_sessions[3] = FreeSlot

\* the number of pages count lights need, never less than one
PagesFor(count) ==
    LET full == count \div LIGHT_PER_PAGE
        pages == IF count % LIGHT_PER_PAGE = 0 THEN full ELSE full + 1
    IN IF pages < 1 THEN 1 ELSE pages

\* C38: whenever the registry is initialised, light_count is in 0..16,
\* page_count is max(1, ceil(light_count / 4)) and current_page is in
\* 0..page_count - 1, whatever inits, reloads, swipes and light_ui_set_page
\* calls came before; startup and every light_ui_init leave current_page 0.
C38_PagesInRange ==
    /\ ui.current_page = 0
    /\ [](ui.light_screen =>
            /\ ui.light_count \in 0..LIGHT_MAX_COUNT
            /\ ui.page_count = PagesFor(ui.light_count)
            /\ ui.current_page \in 0..(ui.page_count - 1))
    /\ [][act'.op = "light_ui_init" => (ui'.light_screen /\ ui'.current_page = 0)]_vars

\* after a reload made four pages, light_ui_set_page asked for a page past the
\* last one and the last page is the current one
C38_Witness ==
    /\ act.op = "light_ui_set_page"
    /\ act.i = MAX_PAGES
    /\ put.rc = 0
    /\ ui.light_screen
    /\ ui.light_count = LIGHT_MAX_COUNT
    /\ ui.page_count = MAX_PAGES
    /\ ui.current_page = MAX_PAGES - 1

\* C39: config_server_start while the server runs returns -1 and leaves
\* s_running, the server thread and the session table as they were;
\* config_server_stop while it does not run changes nothing and returns at
\* once; a start that fails leaves the server not running, with no server
\* thread; a start that succeeds leaves the server running with an empty
\* session table, so that no token issued before it is accepted after it.
C39_LifecycleSafe ==
    [][/\ (act'.op = "config_server_start" /\ s_running) =>
              /\ act'.rc = -1
              /\ s_running'
              /\ s_sessions' = s_sessions
              /\ wpc' = wpc
       /\ (act'.op = "config_server_stop" /\ ~s_running) =>
              /\ ~s_running'
              /\ s_sessions' = s_sessions
              /\ wpc' = wpc
              /\ rpc' = rpc
       /\ (act'.op = "config_server_start" /\ act'.rc # 0 /\ ~s_running) =>
              /\ ~s_running'
              /\ wpc' = "off"
       /\ (act'.op = "config_server_start" /\ act'.rc = 0) =>
              /\ ~s_running
              /\ s_running'
              /\ wpc' = "idle"
              /\ s_sessions' = NoSessions
              /\ \A k \in 1..issued :
                    session_validate(s_sessions', Tokens[k], wall').rc = 0]_vars

\* the server has just been started again, and the session it held when it
\* was stopped is gone
C39_Witness ==
    /\ act.op = "config_server_start"
    /\ act.rc = 0
    /\ s_running
    /\ s_sessions = NoSessions
    /\ <<Tokens[1], "restart">> \in ended

====
